---- MODULE Spec2Model ----
(***************************************************************************)
(* A model of the realtime session layer (Live.Connect, Session.send,      *)
(* Session.Receive, Session.Close) and of the HTTP response pipeline       *)
(* (response classification and the server-sent-event stream iterator) of  *)
(* go-genai.                                                               *)
(*                                                                         *)
(* The repository holds two revisions of the live client: src/chats.go     *)
(* (lines 106-381) and src/unnamed/part_003 (lines 1-260).  They differ in *)
(* Live.Connect: the first reads one frame after writing the setup frame,  *)
(* the second returns right after the write.  The variable `variant`       *)
(* selects the revision a behaviour runs.                                  *)
(*                                                                         *)
(* The socket is gorilla/websocket's Conn over a network connection, which *)
(* is not part of the repository.  It is modelled by what the Session code *)
(* observes of it: frames queued towards the client, frames written by the *)
(* client, Close() closing the connection (a second Close() on the same    *)
(* connection reports "use of closed network connection"), and the read    *)
(* and the write direction failing independently of each other.            *)
(***************************************************************************)
EXTENDS Integers, Sequences, FiniteSets, TLC

VARIABLES
    variant,     \* revision of the live client: "chats.go" or "part_003"
    backend,     \* clientConfig.Backend: "mldev" (Gemini API) or "vertex"
    cpc,         \* position of Live.Connect: idle, awaitAck, returned, failed, panicked
    conn,        \* the socket Connect dialled: none, open, closed
    sess,        \* what Connect handed to the caller: none or session
    rbroken,     \* the read direction of the socket has failed
    wbroken,     \* the write direction of the socket has failed
    inbox,       \* frames sent by the server and not yet read
    arrived,     \* number of frames the server has sent
    written,     \* frames written to the socket, in order
    clog,        \* socket operations Connect performed after dialling, in order
    last,        \* the last call that returned to the caller, with its result
    ioErrSeen,   \* a socket read or write error has been returned to the caller
    crashed,     \* a panic unwound the calling goroutine
    \* the HTTP pipeline: one response, handled by sendRequest or by
    \* sendStreamRequest and the test's loop over iterateResponseStream
    hrev,        \* the test file whose expectations newAPIError follows
    hstatus,     \* resp.StatusCode
    hsegs,       \* the parts the body was put together from
    hbody,       \* the response body, a sequence of text tokens
    maxIteration,\* the consumer's limit: [set |-> FALSE] is the nil pointer
    hpc,         \* idle, done, streaming, ended, failed, stopped
    rest,        \* the part of the body the scanner has not consumed
    yielded,     \* the records the iterator has yielded, in order
    steps,       \* the iterator's yields so far, records and error alike
    errStep,     \* the yield that carried the error, 0 when there is none
    herr,        \* the error returned: none, api, deserialize, unmarshal, invalidChunk
    apiErr,      \* the APIError returned, when herr = "api"
    hres,        \* what the call returned otherwise: none, result or stream
    gotResponse, \* the records the consumer kept
    iterCount,   \* the consumer's count of records received
    \* one call of setValueByPath and getValueByPath
    pdata,       \* the map passed in
    pkeys,       \* the path
    pvalue,      \* the value to set
    ppc,         \* idle, set, got, setgot
    pout,        \* the map after setValueByPath, and whether the call panicked
    pgot,        \* what getValueByPath returned
    \* one call of buildRequest
    bcfg,        \* the ClientConfig: backend, APIKey, project, location, base URL
    bpath,       \* the path argument, its segments
    bmethod,     \* the method argument
    bbody,       \* the body argument, a map from keys to strings
    bheaders,    \* HTTPOptions.Headers, the caller's headers
    bpc,         \* idle, done
    breq,        \* what buildRequest returned
    \* one call of uploadFile against the upload server
    usize,       \* the number of bytes the reader holds
    userver,     \* the server: "mock" (mockUploadServer) or "echoing"
    upc,         \* idle, sent, answered, done, failed
    uoffset,     \* the client's running total of bytes sent
    usent,       \* the requests sent, in order
    uresp,       \* the response the client has not handled yet
    uhandled,    \* the responses the client has handled, in order
    totalReceived, \* the server's count of bytes received
    ufile,       \* what uploadFile returned
    \* one loop over Files.All against the list server
    serverResponses, \* the pages the server holds, in order
    responseIndex,   \* the number of pages the server has served
    gpc,         \* idle, requested, yielding, done, failed
    greqs,       \* the page token of every request sent, in order
    gpage,       \* the page the iterator holds
    gpos,        \* the number of items of that page already yielded
    gotFiles,    \* the items the consumer received, in order
    gerr,        \* the error the iterator yielded, "none" when there is none
    \* the context handed to Live.Connect
    cancelled,   \* the context has been cancelled
    \* one Chat and its calls of SendMessage
    comprehensiveHistory, \* Chat.comprehensiveHistory
    cparts,      \* the parts handed to the last SendMessage
    contents,    \* the contents the last SendMessage handed to GenerateContent
    modelOutput, \* what the last GenerateContent returned
    csends,      \* the number of SendMessage calls so far
    ncc,         \* the ClientConfig handed to NewClient
    nenv,        \* what the config's envVarProvider returns
    nclient,     \* what NewClient returned: nothing yet, an error, or a client
    \* one open session driven by a sending and a receiving goroutine
    dbackend,    \* clientConfig.Backend of the session
    dwritten,    \* frames written to the socket, in order
    darrived,    \* frames the server has sent, in arrival order
    dinbox,      \* frames of the server no ReadMessage has returned yet
    spc,         \* the sender: idle, or marshalled (before WriteMessage)
    sdata,       \* the sender's local data: the frame it is about to write
    sendLog,     \* the send calls that returned, in order, with their results
    rpc,         \* the receiver: idle, or read (after ReadMessage)
    msgBytes,    \* the receiver's local msgBytes: the frame it has read
    recvLog,     \* the Receive calls that returned, in order, with their results
    dcrashed,    \* a panic in Receive ended the process
    \* one call of a structural converter on maps held by reference
    vbackend,    \* the backend whose converter is called
    vkind,       \* the converter: connect, send or server
    vheap,       \* the maps that exist before the call, by address
    vsrc,        \* the address of fromObject
    vpc,         \* idle, done
    vout         \* the maps after the call, the address of the result, the error

liveVars == <<variant, backend, cpc, conn, sess, rbroken, wbroken, inbox,
              arrived, written, clog, last, ioErrSeen, crashed>>

httpVars == <<hrev, hstatus, hsegs, hbody, maxIteration, hpc, rest, yielded, steps,
              errStep, herr, apiErr, hres, gotResponse, iterCount>>

pathVars == <<pdata, pkeys, pvalue, ppc, pout, pgot>>

buildVars == <<bcfg, bpath, bmethod, bbody, bheaders, bpc, breq>>

uploadVars == <<usize, userver, upc, uoffset, usent, uresp, uhandled, totalReceived, ufile>>

pageVars == <<serverResponses, responseIndex, gpc, greqs, gpage, gpos, gotFiles, gerr>>

ctxVars == <<cancelled>>

chatVars == <<comprehensiveHistory, cparts, contents, modelOutput, csends>>

clientVars == <<ncc, nenv, nclient>>

duplexVars == <<dbackend, dwritten, darrived, dinbox, spc, sdata, sendLog, rpc, msgBytes, recvLog, dcrashed>>

convVars == <<vbackend, vkind, vheap, vsrc, vpc, vout>>

vars == <<liveVars, httpVars, pathVars, buildVars, uploadVars, pageVars, ctxVars, chatVars, clientVars, duplexVars, convVars>>

\* What the steps of one part of the model leave alone.
nonLiveVars == <<httpVars, pathVars, buildVars, uploadVars, pageVars, ctxVars, chatVars, clientVars, duplexVars, convVars>>

nonHttpVars == <<liveVars, pathVars, buildVars, uploadVars, pageVars, ctxVars, chatVars, clientVars, duplexVars, convVars>>

nonPathVars == <<liveVars, httpVars, buildVars, uploadVars, pageVars, ctxVars, chatVars, clientVars, duplexVars, convVars>>

nonBuildVars == <<liveVars, httpVars, pathVars, uploadVars, pageVars, ctxVars, chatVars, clientVars, duplexVars, convVars>>

nonUploadVars == <<liveVars, httpVars, pathVars, buildVars, pageVars, ctxVars, chatVars, clientVars, duplexVars, convVars>>

nonPageVars == <<liveVars, httpVars, pathVars, buildVars, uploadVars, ctxVars, chatVars, clientVars, duplexVars, convVars>>

nonCtxVars == <<liveVars, httpVars, pathVars, buildVars, uploadVars, pageVars, chatVars, clientVars, duplexVars, convVars>>

nonChatVars == <<liveVars, httpVars, pathVars, buildVars, uploadVars, pageVars, ctxVars, clientVars, duplexVars, convVars>>

nonClientVars == <<liveVars, httpVars, pathVars, buildVars, uploadVars, pageVars, ctxVars, chatVars, duplexVars, convVars>>

nonDuplexVars == <<liveVars, httpVars, pathVars, buildVars, uploadVars, pageVars, ctxVars, chatVars, clientVars, convVars>>

nonConvVars == <<liveVars, httpVars, pathVars, buildVars, uploadVars, pageVars, ctxVars, chatVars, clientVars, duplexVars>>

----------------------------------------------------------------------------
(* Bounds of the model. *)

\* Frames the server sends within one behaviour.
MaxFrames == 2

\* Frames the client writes within one behaviour (the setup frame included).
MaxWrites == 2

\* Parts (records, blank lines, malformed chunks) a response body is made of.
MaxSegs == 3

\* Segments of a path handed to setValueByPath and getValueByPath.
MaxPath == 3

\* Bytes the reader handed to uploadFile holds at most.
MaxUploadSize == 7

\* Bytes of one chunk of an upload (8 MiB in the library), scaled down.
maxChunkSize == 2

\* Pages the list server holds at most.
MaxPages == 3

\* Items of one page at most.
MaxPageItems == 2

\* Calls of SendMessage on one chat.
MaxSends == 2

----------------------------------------------------------------------------
(* Server frames.  A frame is the text of one websocket message; the fields *)
(* say what json.Unmarshal and the converters make of it.                   *)
(*   json    : the text decodes into a map[string]any                       *)
(*   error   : the top-level "error" key: absent, null, or set (non-null)   *)
(*   field   : the message field present (setupComplete, serverContent,     *)
(*             toolCall), or none                                           *)
(*   object  : the value of that field is a JSON object                     *)
(*   typed   : the leaves have the types LiveServerMessage declares         *)
(*   id      : the function call inside a toolCall carries an id            *)

Frame(tag, json, error, fld, object, typed, id) ==
    [tag |-> tag, json |-> json, error |-> error, field |-> fld,
     object |-> object, typed |-> typed, id |-> id]

NoFrame == Frame("none", FALSE, "absent", "none", FALSE, FALSE, FALSE)

ServerFrames ==
    { Frame("notjson",       FALSE, "absent", "none",          FALSE, FALSE, FALSE),
      Frame("error",         TRUE,  "set",    "none",          FALSE, TRUE,  FALSE),
      Frame("setupComplete", TRUE,  "null",   "setupComplete", TRUE,  TRUE,  FALSE),
      Frame("toolCall",      TRUE,  "absent", "toolCall",      TRUE,  TRUE,  TRUE),
      Frame("scalarField",   TRUE,  "absent", "setupComplete", FALSE, TRUE,  FALSE),
      Frame("badLeaf",       TRUE,  "absent", "serverContent", TRUE,  FALSE, FALSE) }

(* A typed server message as Receive returns it. *)
Msg(fld, id) == [field |-> fld, id |-> id]

NoMsg == Msg("nil", FALSE)

(* liveServerMessageFromMldev / liveServerMessageFromVertex: a fresh map   *)
(* with the message fields copied over; functionCallFromVertex copies args *)
(* and name only, functionCallFromMldev copies the id as well.             *)
liveServerMessageFrom(b, f) ==
    Msg(f.field, IF b = "vertex" THEN FALSE ELSE f.id)

(* The part of Session.Receive after ReadMessage returned frame f.         *)
ReceiveNoErrorCheck(b, f) ==
    IF ~f.json
      THEN [res |-> "err", msg |-> NoMsg]
    ELSE IF f.field # "none" /\ ~f.object
      THEN [res |-> "panic", msg |-> NoMsg]
    ELSE IF ~f.typed
      THEN [res |-> "err", msg |-> NoMsg]
    ELSE [res |-> "ok", msg |-> liveServerMessageFrom(b, f)]

decodeFrame(b, f) ==
    IF ~f.json
      THEN [res |-> "err", msg |-> NoMsg]      \* invalid message format
    ELSE IF f.error = "set"
      THEN [res |-> "err", msg |-> NoMsg]      \* received error in response
    ELSE IF f.field # "none" /\ ~f.object
      THEN [res |-> "panic", msg |-> NoMsg]    \* fromX.(map[string]any)
    ELSE IF ~f.typed
      THEN [res |-> "err", msg |-> NoMsg]      \* mapToStruct
    ELSE [res |-> "ok", msg |-> liveServerMessageFrom(b, f)]

----------------------------------------------------------------------------
(* Client frames. *)

ClientFrame(kind, tc, id) == [kind |-> kind, turnComplete |-> tc, id |-> id]

SetupFrame == ClientFrame("setup", "na", FALSE)

(* A LiveClientMessage handed to Session.send:                              *)
(*   kind : the field that is set (setup, clientContent, realtimeInput,     *)
(*          toolResponse)                                                   *)
(*   tc   : ClientContent.TurnComplete                                      *)
(*   id   : a function response of the tool response carries an ID          *)
ClientMessage(kind, tc, id) == [kind |-> kind, tc |-> tc, id |-> id]

(* A variant of liveSendParametersTo in which functionResponseToVertex     *)
(* copies the id as functionResponseToMldev does.                          *)
liveSendParametersToCopiesId(b, m) ==
    [err |-> FALSE,
     frame |-> ClientFrame(m.kind,
                           IF m.kind # "clientContent" THEN "na"
                           ELSE IF m.tc THEN "true" ELSE "absent",
                           m.id)]

(* liveSendParametersToMldev / liveSendParametersToVertex applied to the   *)
(* marshalled message: the frame, or an error.  setValueByPath writes no   *)
(* zero value, so a false turnComplete leaves no key in the frame.         *)
liveSendParametersTo(b, m) ==
    IF m.kind = "toolResponse" /\ m.id /\ b = "vertex"
      THEN [err |-> TRUE, frame |-> SetupFrame]
    ELSE [err |-> FALSE,
          frame |-> ClientFrame(m.kind,
                                IF m.kind # "clientContent" THEN "na"
                                ELSE IF m.tc THEN "true" ELSE "absent",
                                m.id)]

(* The socket's answers. *)
canWrite == conn = "open" /\ ~wbroken

canRead == conn = "open" /\ inbox # <<>>

readFails == conn = "closed" \/ (conn = "open" /\ inbox = <<>> /\ rbroken)

(* What Session.send does with message m before it touches the socket:     *)
(* "reject" (a setup message), "convErr" (the converter failed), or "write".*)
sendNoSetupCheck(b, m) ==
    IF liveSendParametersTo(b, m).err THEN "convErr" ELSE "write"

send(b, m) ==
    IF m.kind = "setup" THEN "reject"
    ELSE IF liveSendParametersTo(b, m).err THEN "convErr"
    ELSE "write"

----------------------------------------------------------------------------
(* The record of the last call that returned. *)

(*   op, res : the method and how it ended: ok, err or panic                *)
(*   setup   : the message handed to send had its Setup field set           *)
(*   recv    : the receiver of Close: nil, zero or session                  *)
(*   msg     : the message Receive returned                                 *)
(*   tick    : flips with every call, so that two equal calls differ        *)
Call(op, res, setup, recv, msg) ==
    [op |-> op, res |-> res, setup |-> setup, recv |-> recv, msg |-> msg,
     tick |-> ~last.tick]

NoCall ==
    [op |-> "none", res |-> "ok", setup |-> FALSE, recv |-> "na",
     msg |-> NoMsg, tick |-> FALSE]

(* Close has been called on the session's connection: nothing else closes  *)
(* it.                                                                     *)
closeCalled == conn = "closed"

terminal == closeCalled \/ ioErrSeen

\* No session exists and no call has been made.
LiveIdle ==
    /\ cpc = "idle"
    /\ conn = "none"
    /\ sess = "none"
    /\ rbroken = FALSE
    /\ wbroken = FALSE
    /\ inbox = <<>>
    /\ arrived = 0
    /\ written = <<>>
    /\ clog = <<>>
    /\ last = NoCall
    /\ ioErrSeen = FALSE
    /\ crashed = FALSE

LiveInit ==
    /\ variant \in {"chats.go", "part_003"}
    /\ backend \in {"mldev", "vertex"}
    /\ LiveIdle

----------------------------------------------------------------------------
(* Live.Connect.  Everything up to the write of the setup frame is one     *)
(* step; `outcome` is the first statement that fails, or "ok":             *)
(*   noConn    : APIVersion empty, base URL unparsable, no token, or Dial  *)
(*               failed; no socket was opened                              *)
(*   convFail  : tModelFullName, deepMarshal, the converter or json.Marshal*)
(*               failed after Dial succeeded; Connect returns nil, err     *)
(*   writeFail : WriteMessage of the setup frame failed                    *)
(* Neither revision closes conn on an error return.                        *)
ConnectOutcomes == {"noConn", "convFail", "writeFail", "ok"}

ConnectStart(outcome) ==
    /\ cpc = "idle"
    /\ ~crashed
    /\ conn' = IF outcome = "noConn" THEN "none" ELSE "open"
    /\ wbroken' = (outcome = "writeFail")
    /\ written' = IF outcome = "ok" THEN <<SetupFrame>> ELSE written
    /\ clog' = IF outcome = "ok" THEN <<"write">>
               ELSE IF outcome = "writeFail" THEN <<"writeErr">>
               ELSE clog
    /\ IF outcome # "ok"
         THEN /\ cpc' = "failed"
              /\ sess' = "none"
              /\ last' = Call("Connect", "err", FALSE, "na", NoMsg)
         ELSE IF variant = "chats.go"
           THEN /\ cpc' = "awaitAck"     \* blocked in s.Receive()
                /\ UNCHANGED <<sess, last>>
           ELSE /\ cpc' = "returned"     \* part_003: return s, nil
                /\ sess' = "session"
                /\ last' = Call("Connect", "ok", FALSE, "na", NoMsg)
    /\ UNCHANGED nonLiveVars
    /\ UNCHANGED <<variant, backend, rbroken, inbox, arrived, ioErrSeen, crashed>>

(* chats.go:240-244: the s.Receive() inside Connect.  It returns when a    *)
(* frame is there or the read fails, and stays blocked otherwise.          *)
ConnectAck ==
    /\ cpc = "awaitAck"
    /\ ~crashed
    /\ canRead \/ readFails
    /\ IF canRead
         THEN LET f == Head(inbox)
                  d == decodeFrame(backend, f)
              IN  /\ inbox' = Tail(inbox)
                  /\ clog' = Append(clog, "read")
                  /\ cpc' = CASE d.res = "ok" -> "returned"
                              [] d.res = "err" -> "failed"
                              [] OTHER -> "panicked"
                  /\ crashed' = (d.res = "panic")
                  /\ sess' = IF d.res = "ok" THEN "session" ELSE "none"
                  /\ last' = Call("Connect", d.res, FALSE, "na", NoMsg)
         ELSE /\ clog' = Append(clog, "readErr")
              /\ cpc' = "failed"
              /\ sess' = "none"
              /\ last' = Call("Connect", "err", FALSE, "na", NoMsg)
              /\ UNCHANGED <<inbox, crashed>>
    /\ UNCHANGED nonLiveVars
    /\ UNCHANGED <<variant, backend, conn, rbroken, wbroken, arrived, written, ioErrSeen>>

----------------------------------------------------------------------------
(* Session.send with message m, called as `op`.                             *)
sendCall(op, m) ==
    /\ sess = "session"
    /\ ~crashed
    /\ LET o == send(backend, m)
           fr == liveSendParametersTo(backend, m).frame
       IN  IF o = "write" /\ canWrite
             THEN /\ Len(written) < MaxWrites
                  /\ written' = Append(written, fr)
                  /\ last' = Call(op, "ok", m.kind = "setup", "na", NoMsg)
                  /\ UNCHANGED ioErrSeen
             ELSE /\ last' = Call(op, "err", m.kind = "setup", "na", NoMsg)
                  /\ ioErrSeen' = (ioErrSeen \/ o = "write")
                  /\ UNCHANGED written
    /\ UNCHANGED nonLiveVars
    /\ UNCHANGED <<variant, backend, cpc, conn, sess, rbroken, wbroken, inbox,
                   arrived, clog, crashed>>

(* input.TurnComplete: "unset" (nil), "true" or "false". *)
SendClientContent(tc) ==
    sendCall("SendClientContent",
             ClientMessage("clientContent", tc # "false", FALSE))

SendRealtimeInput ==
    sendCall("SendRealtimeInput", ClientMessage("realtimeInput", FALSE, FALSE))

SendToolResponse(id) ==
    sendCall("SendToolResponse", ClientMessage("toolResponse", FALSE, id))

(* send called with a message whose Setup field is set. *)
SendSetup ==
    sendCall("send", ClientMessage("setup", FALSE, FALSE))

(* Session.Receive: ReadMessage, then decodeFrame. *)
Receive ==
    /\ sess = "session"
    /\ ~crashed
    /\ canRead \/ readFails
    /\ IF canRead
         THEN LET f == Head(inbox)
                  d == decodeFrame(backend, f)
              IN  /\ inbox' = Tail(inbox)
                  /\ crashed' = (d.res = "panic")
                  /\ last' = Call("Receive", d.res, FALSE, "na", d.msg)
                  /\ UNCHANGED ioErrSeen
         ELSE /\ last' = Call("Receive", "err", FALSE, "na", NoMsg)
              /\ ioErrSeen' = TRUE
              /\ UNCHANGED <<inbox, crashed>>
    /\ UNCHANGED nonLiveVars
    /\ UNCHANGED <<variant, backend, cpc, conn, sess, rbroken, wbroken,
                   arrived, written, clog>>

(* Session.Close on receiver `recv`: "session" (the session Connect        *)
(* returned), or, while the caller holds none, "nil" (the nil *Session a   *)
(* failed Connect returns) or "zero" (a Session whose conn is nil).  Close *)
(* returns what conn.Close() returns: nil the first time, the connection's *)
(* "use of closed network connection" after that.                          *)
Close(recv) ==
    /\ ~crashed
    /\ cpc # "awaitAck"
    /\ recv = "session" <=> sess = "session"
    /\ IF recv = "session"
         THEN /\ conn' = "closed"
              /\ last' = Call("Close", IF conn = "open" THEN "ok" ELSE "err",
                              FALSE, recv, NoMsg)
         ELSE /\ last' = Call("Close", "ok", FALSE, recv, NoMsg)
              /\ UNCHANGED conn
    /\ UNCHANGED nonLiveVars
    /\ UNCHANGED <<variant, backend, cpc, sess, rbroken, wbroken, inbox,
                   arrived, written, clog, ioErrSeen, crashed>>

----------------------------------------------------------------------------
(* The peer and the network. *)

ServerSend(f) ==
    /\ conn = "open"
    /\ ~rbroken
    /\ arrived < MaxFrames
    /\ inbox' = Append(inbox, f)
    /\ arrived' = arrived + 1
    /\ UNCHANGED nonLiveVars
    /\ UNCHANGED <<variant, backend, cpc, conn, sess, rbroken, wbroken,
                   written, clog, last, ioErrSeen, crashed>>

(* The peer ends its sending direction, or a read fails for good. *)
ReadSideFails ==
    /\ conn = "open"
    /\ ~rbroken
    /\ rbroken' = TRUE
    /\ UNCHANGED nonLiveVars
    /\ UNCHANGED <<variant, backend, cpc, conn, sess, wbroken, inbox, arrived,
                   written, clog, last, ioErrSeen, crashed>>

WriteSideFails ==
    /\ conn = "open"
    /\ ~wbroken
    /\ wbroken' = TRUE
    /\ UNCHANGED nonLiveVars
    /\ UNCHANGED <<variant, backend, cpc, conn, sess, rbroken, inbox, arrived,
                   written, clog, last, ioErrSeen, crashed>>

LiveNext ==
    \/ \E o \in ConnectOutcomes : ConnectStart(o)
    \/ ConnectAck
    \/ \E tc \in {"unset", "true", "false"} : SendClientContent(tc)
    \/ SendRealtimeInput
    \/ \E id \in BOOLEAN : SendToolResponse(id)
    \/ SendSetup
    \/ Receive
    \/ \E r \in {"nil", "zero", "session"} : Close(r)
    \/ \E f \in ServerFrames : ServerSend(f)
    \/ ReadSideFails
    \/ WriteSideFails

----------------------------------------------------------------------------
(* The context handed to Live.Connect.  Connect hands it to                *)
(* Credentials.Token only (chats.go:182): Dial (201), WriteMessage (236)   *)
(* and the ReadMessage of Receive (342) do not take it, so its             *)
(* cancellation changes nothing Connect looks at.                          *)

\* The context is not cancelled.
CtxParked == cancelled = FALSE

\* The caller cancels the context.
Cancel ==
    /\ ~cancelled
    /\ cancelled' = TRUE
    /\ UNCHANGED nonCtxVars

\* Live.Connect alone, with its peer, the network and the caller's context.
ConnectNext ==
    \/ \E o \in ConnectOutcomes : ConnectStart(o)
    \/ ConnectAck
    \/ \E f \in ServerFrames : ServerSend(f)
    \/ ReadSideFails
    \/ WriteSideFails
    \/ Cancel

----------------------------------------------------------------------------
(* The HTTP pipeline.  api_client.go is not among the sources: sendRequest,  *)
(* sendStreamRequest, iterateResponseStream and newAPIError follow the       *)
(* specification's sections 4.4, 7 and 8; the consumer is the loop of        *)
(* TestIterateResponseStream.                                                *)
(*                                                                           *)
(* A body is a sequence of text tokens: "data:" is the record prefix, "LF"   *)
(* and "CR" are the newline and carriage-return bytes, "TAB" a tab, the      *)
(* members of ObjText are JSON objects, the members of EnvelopeText are JSON *)
(* objects of the error-envelope shape, "junk" is text that is not JSON and  *)
(* "error:" is a prefix other than "data:".                                  *)

ObjText == {"{k:1}", "{k:2}"}

EnvelopeText == {"{error:{code:400}}", "{error:{code:500}}"}

\* json.Unmarshal of an object: the text becomes a map.
Decode(t) == IF t = "{k:1}" THEN [k |-> 1] ELSE [k |-> 2]

\* json.Unmarshal of an error envelope: code, message and status string of the body.
DecodeEnvelope(t) ==
    IF t = "{error:{code:400}}"
    THEN [code |-> 400, message |-> <<"bad request">>, status |-> "INVALID_ARGUMENT"]
    ELSE [code |-> 500, message |-> <<"internal">>, status |-> "INTERNAL"]

LFLF == <<"LF", "LF">>

CRLFCRLF == <<"CR", "LF", "CR", "LF">>

Terminators == {LFLF, CRLFCRLF}

\* The parts a test server's stream body is written from; one body uses one
\* terminator throughout, as the test bodies do.
Segments(t) ==
    [kind : {"record"}, text : ObjText, term : {t}]
    \cup [kind : {"blank"}, text : {""}, term : {t}]
    \cup [kind : {"badPrefix"}, text : {"{k:2}"}, term : {t}]
    \cup [kind : {"badJSON"}, text : {"junk"}, term : {t}]
    \cup [kind : {"tabSeparated"}, text : {"{k:1}"}, term : {t}]

\* The bytes of one part.
SegBytes(g) ==
    CASE g.kind = "record" -> <<"data:", g.text>> \o g.term
      [] g.kind = "blank" -> g.term
      [] g.kind = "badPrefix" -> <<"error:", g.text>> \o g.term
      [] g.kind = "badJSON" -> <<"data:", g.text>> \o g.term
      [] g.kind = "tabSeparated" ->
             <<"data:", g.text, "TAB", "TAB", "data:", g.text>> \o g.term
      [] OTHER -> <<g.text>> \o g.term

RECURSIVE BodyOf(_)
BodyOf(segs) ==
    IF segs = <<>> THEN <<>> ELSE SegBytes(Head(segs)) \o BodyOf(Tail(segs))

Malformed(g) == g.kind \in {"badPrefix", "badJSON", "tabSeparated", "raw"}

\* The objects of the records that come before the first malformed part.
RECURSIVE ValidPrefix(_)
ValidPrefix(segs) ==
    IF segs = <<>> \/ Malformed(Head(segs)) THEN <<>>
    ELSE IF Head(segs).kind = "record"
         THEN <<Decode(Head(segs).text)>> \o ValidPrefix(Tail(segs))
         ELSE ValidPrefix(Tail(segs))

AllValid(segs) == \A i \in 1..Len(segs) : ~Malformed(segs[i])

\* The first n elements of a sequence (all of it when it is shorter).
Take(s, n) == SubSeq(s, 1, IF n < Len(s) THEN n ELSE Len(s))

\* The scanner's split function: a chunk ends at the earliest "\n\n" or
\* "\r\n\r\n"; what is left when the body closes is the last chunk.
IsLFLF(s, i) == i + 1 <= Len(s) /\ SubSeq(s, i, i + 1) = LFLF

IsCRLFCRLF(s, i) == i + 3 <= Len(s) /\ SubSeq(s, i, i + 3) = CRLFCRLF

\* A variant of scan that knows the "\n\n" delimiter only.
scanLFOnly(s) ==
    LET ends == {i \in 1..Len(s) : IsLFLF(s, i)} IN
    IF ends = {} THEN [token |-> s, rest |-> <<>>]
    ELSE LET i == CHOOSE j \in ends : \A k \in ends : j <= k
         IN [token |-> SubSeq(s, 1, i - 1), rest |-> SubSeq(s, i + Len(LFLF), Len(s))]

scan(s) ==
    LET ends == {i \in 1..Len(s) : IsLFLF(s, i) \/ IsCRLFCRLF(s, i)} IN
    IF ends = {} THEN [token |-> s, rest |-> <<>>]
    ELSE LET i == CHOOSE j \in ends : \A k \in ends : j <= k
             w == IF IsLFLF(s, i) THEN Len(LFLF) ELSE Len(CRLFCRLF)
         IN [token |-> SubSeq(s, 1, i - 1), rest |-> SubSeq(s, i + w, Len(s))]

\* The iterator's read of the next chunk: empty chunks are skipped.
RECURSIVE nextChunk(_)
nextChunk(s) ==
    IF s = <<>> THEN [eof |-> TRUE, token |-> <<>>, rest |-> <<>>]
    ELSE LET r == scan(s) IN
         IF r.token = <<>> THEN nextChunk(r.rest)
         ELSE [eof |-> FALSE, token |-> r.token, rest |-> r.rest]

NoRecord == [k |-> 0]

\* A variant of parseChunk that does not look at the prefix.
parseChunkAnyPrefix(token) ==
    IF Len(token) = 2 /\ token[2] \in ObjText
    THEN [err |-> "none", rec |-> Decode(token[2])]
    ELSE [err |-> "unmarshal", rec |-> NoRecord]

\* One non-empty chunk: the "data:" prefix is required and what follows it
\* must be one JSON object.
parseChunk(token) ==
    IF Head(token) # "data:" THEN [err |-> "invalidChunk", rec |-> NoRecord]
    ELSE IF Len(token) = 2 /\ token[2] \in ObjText
         THEN [err |-> "none", rec |-> Decode(token[2])]
         ELSE [err |-> "unmarshal", rec |-> NoRecord]

\* resp.Status, the status line the test server writes for a status code.
StatusLine(code) ==
    CASE code = 200 -> "200 OK"
      [] code = 399 -> "399 status code 399"
      [] code = 400 -> "400 Bad Request"
      [] code = 499 -> "499 status code 499"
      [] code = 500 -> "500 Internal Server Error"
      [] OTHER -> "503 Service Unavailable"

OkStatuses == {200, 399}

ErrorStatuses == {400, 499, 500, 503}

APIError(kind, code, message, status) ==
    [kind |-> kind, code |-> code, message |-> message, status |-> status]

NoAPIError == APIError("none", 0, <<>>, "")

IsEnvelope(body) == Len(body) = 1 /\ body[1] \in EnvelopeText

IsJSON(body) == Len(body) = 1 /\ body[1] \in ObjText \cup EnvelopeText

\* The error of a response with status >= 400: the parsed envelope, or one
\* made of the raw body and the status line; its kind follows the status.
errorOf(status, body) ==
    LET kind == IF status < 500 THEN "client" ELSE "server" IN
    IF IsEnvelope(body)
    THEN LET e == DecodeEnvelope(body[1]) IN APIError(kind, e.code, e.message, e.status)
    ELSE APIError(kind, status, body, StatusLine(status))

\* newAPIError as the two test files expect it: the older one wants a plain
\* error for a body that is not JSON, the newer one the error made of the body.
newAPIError(rev, status, body) ==
    IF rev = "api_client_test.go" /\ body # <<>> /\ ~IsJSON(body)
    THEN [err |-> "newAPIError: unmarshal", api |-> NoAPIError]
    ELSE [err |-> "api", api |-> errorOf(status, body)]

\* The loop body of the test's consumer, with one more record kept before
\* the break.
consumeKeepThenBreak(elemErr, count, max) ==
    IF elemErr # "none" THEN [break |-> TRUE, keep |-> FALSE, count |-> count]
    ELSE [break |-> max.set /\ count + 1 > max.n, keep |-> TRUE, count |-> count + 1]

\* The loop body of the test's consumer: break on an error; count the record,
\* break when the count passes maxIteration, keep the record otherwise.
consume(elemErr, count, max) ==
    IF elemErr # "none" THEN [break |-> TRUE, keep |-> FALSE, count |-> count]
    ELSE IF max.set /\ count + 1 > max.n
         THEN [break |-> TRUE, keep |-> FALSE, count |-> count + 1]
         ELSE [break |-> FALSE, keep |-> TRUE, count |-> count + 1]

NilMax == [set |-> FALSE, n |-> 0]

RawSeg(t) == [kind |-> "raw", text |-> t, term |-> <<>>]

SegSeqs(t) == UNION {[1..n -> Segments(t)] : n \in 0..MaxSegs}

\* No HTTP call is in progress and none has returned.
HttpIdle ==
    /\ hpc = "idle" /\ rest = <<>> /\ yielded = <<>> /\ steps = 0 /\ errStep = 0
    /\ herr = "none" /\ apiErr = NoAPIError /\ hres = "none"
    /\ gotResponse = <<>> /\ iterCount = 0

\* The HTTP pipeline is not used.
HttpParked ==
    /\ hrev = "part_002" /\ hstatus = 200 /\ hsegs = <<>> /\ hbody = <<>>
    /\ maxIteration = NilMax
    /\ HttpIdle

\* The realtime session is not used.
LiveParked ==
    /\ variant = "chats.go" /\ backend = "mldev"
    /\ LiveIdle

HttpInit ==
    /\ hrev \in {"api_client_test.go", "part_002"}
    /\ hstatus \in OkStatuses \cup ErrorStatuses
    /\ \/ \E t \in Terminators : hsegs \in SegSeqs(t)
       \/ \E t \in {"junk"} \cup ObjText \cup EnvelopeText : hsegs = <<RawSeg(t)>>
    /\ hbody = BodyOf(hsegs)
    /\ \/ maxIteration = NilMax
       \/ /\ hstatus \in OkStatuses
          /\ \E n \in 0..MaxSegs : maxIteration = [set |-> TRUE, n |-> n]
    /\ HttpIdle

\* sendRequest: one unary call, classification and decoding of the body.
sendRequest ==
    /\ hpc = "idle"
    /\ hpc' = "done"
    /\ IF hstatus >= 400
       THEN LET e == newAPIError(hrev, hstatus, hbody) IN
            herr' = e.err /\ apiErr' = e.api /\ hres' = "none"
       ELSE /\ apiErr' = NoAPIError
            /\ IF IsJSON(hbody)
               THEN herr' = "none" /\ hres' = "result"
               ELSE herr' = "deserializeUnaryResponse" /\ hres' = "none"
    /\ UNCHANGED <<hrev, hstatus, hsegs, hbody, maxIteration, rest, yielded, steps,
                   errStep, gotResponse, iterCount>>
    /\ UNCHANGED nonHttpVars

\* sendStreamRequest: the call returns the open body when the status is below 400.
sendStreamRequest ==
    /\ hpc = "idle"
    /\ IF hstatus >= 400
       THEN LET e == newAPIError(hrev, hstatus, hbody) IN
            /\ herr' = e.err /\ apiErr' = e.api /\ hres' = "none"
            /\ hpc' = "done"
            /\ UNCHANGED rest
       ELSE /\ hres' = "stream" /\ rest' = hbody /\ hpc' = "streaming"
            /\ UNCHANGED <<herr, apiErr>>
    /\ UNCHANGED <<hrev, hstatus, hsegs, hbody, maxIteration, yielded, steps,
                   errStep, gotResponse, iterCount>>
    /\ UNCHANGED nonHttpVars

\* One turn of the consumer's loop over iterateResponseStream: the iterator
\* reads up to the next non-empty chunk and yields its record or its error,
\* or ends with the body; the loop body then runs on what was yielded.
iterateResponseStream ==
    /\ hpc = "streaming"
    /\ LET c == nextChunk(rest) IN
       IF c.eof
       THEN /\ hpc' = "ended" /\ rest' = c.rest
            /\ UNCHANGED <<yielded, steps, errStep, herr, gotResponse, iterCount>>
       ELSE LET p == parseChunk(c.token)
                d == consume(p.err, iterCount, maxIteration)
            IN /\ rest' = c.rest
               /\ steps' = steps + 1
               /\ herr' = p.err
               /\ errStep' = IF p.err = "none" THEN errStep ELSE steps + 1
               /\ yielded' = IF p.err = "none" THEN Append(yielded, p.rec) ELSE yielded
               /\ iterCount' = d.count
               /\ gotResponse' = IF d.keep THEN Append(gotResponse, p.rec) ELSE gotResponse
               /\ hpc' = IF p.err # "none" THEN "failed"
                         ELSE IF d.break THEN "stopped" ELSE "streaming"
    /\ UNCHANGED <<hrev, hstatus, hsegs, hbody, maxIteration, apiErr, hres>>
    /\ UNCHANGED nonHttpVars

HttpNext ==
    \/ sendRequest
    \/ sendStreamRequest
    \/ iterateResponseStream

----------------------------------------------------------------------------
(* setValueByPath and getValueByPath (common.go).  A Go value of type any  *)
(* is a tagged record: the nil interface, a string, an int, a bool, a      *)
(* []any, a map[string]any (m is its content, a function on its keys) or   *)
(* the nil map[string]any.                                                 *)

Nil == [t |-> "nil"]

NilMap == [t |-> "nilmap"]

Str(s) == [t |-> "string", s |-> s]

Num(n) == [t |-> "int", n |-> n]

Bool(b) == [t |-> "bool", b |-> b]

List(q) == [t |-> "list", l |-> q]

Map(f) == [t |-> "map", m |-> f]

EmptyMap == Map(<<>>)

\* m with m[k] = v.
Put(m, k, v) == [x \in DOMAIN m \cup {k} |-> IF x = k THEN v ELSE m[x]]

\* value == nil
IsNil(v) == v = Nil

\* reflect.ValueOf(value).IsZero()
IsZero(v) ==
    \/ v = Str("") \/ v = Num(0) \/ v = Bool(FALSE) \/ v = NilMap

\* A variant of setIn that does not make the maps missing on the way.
RECURSIVE setInNoCreate(_, _, _)
setInNoCreate(m, keys, value) ==
    IF Len(keys) = 1
    THEN IF IsZero(value) THEN m ELSE Put(m, keys[1], value)
    ELSE LET key == Head(keys) IN
         IF key \in DOMAIN m /\ m[key].t = "map"
         THEN Put(m, key, Map(setInNoCreate(m[key].m, Tail(keys), value)))
         ELSE m

\* The loop and the final assignment of setValueByPath on a map's content:
\* every key but the last is made a map when it is missing or not a map, and
\* the last key is assigned when the value is not a zero value.
RECURSIVE setIn(_, _, _)
setIn(m, keys, value) ==
    IF Len(keys) = 1
    THEN IF IsZero(value) THEN m ELSE Put(m, keys[1], value)
    ELSE LET key == Head(keys)
             child == IF key \in DOMAIN m /\ m[key].t = "map" THEN m[key].m ELSE <<>>
         IN Put(m, key, Map(setIn(child, Tail(keys), value)))

\* setValueByPath: the map as the call leaves it, or a panic (keys[-1] for an
\* empty path with a non-zero value, an assignment to an entry of a nil map).
setValueByPath(data, keys, value) ==
    IF IsNil(value) THEN [panic |-> FALSE, data |-> data]
    ELSE IF keys = <<>>
         THEN [panic |-> ~IsZero(value), data |-> data]
    ELSE IF data = NilMap
         THEN [panic |-> Len(keys) > 1 \/ ~IsZero(value), data |-> data]
    ELSE [panic |-> FALSE, data |-> Map(setIn(data.m, keys, value))]

\* The loop of getValueByPath: a map is indexed by the key (nil when the key
\* is missing), anything else ends the walk with nil.
RECURSIVE walk(_, _)
walk(current, keys) ==
    IF keys = <<>> THEN current
    ELSE IF current.t = "map" /\ Head(keys) \in DOMAIN current.m
         THEN walk(current.m[Head(keys)], Tail(keys))
         ELSE Nil

getValueByPath(data, keys) ==
    IF Len(keys) = 1 /\ keys[1] = "_self" THEN data ELSE walk(data, keys)

PlainKeys == {"a", "b"}

PathKeys == PlainKeys \cup {"a[]", "_self"}

Paths == UNION {[1..n -> PathKeys] : n \in 0..MaxPath}

\* Values held by the maps the calls are made on.
DataLeaves == {Str("v"), Num(1)}

MapsOver(vals) ==
    UNION {[d -> vals] : d \in SUBSET PlainKeys}

DataMaps ==
    {Map(f) : f \in MapsOver(DataLeaves \cup {Map(g) : g \in MapsOver(DataLeaves)})}

\* The map of the test "Array_Existing": a holds two element maps.
ArrayExisting ==
    Map([x \in {"a"} |-> List(<<Map([y \in {"c"} |-> Str("v1")]),
                                Map([y \in {"c"} |-> Str("v2")])>>)])

\* Values handed to setValueByPath.
SetValues ==
    {Nil, Str(""), Num(0), Bool(FALSE), Str("w"), Num(2), Bool(TRUE), EmptyMap,
     Map([x \in {"b"} |-> Str("w")]), List(<<Str("v3"), Str("v4")>>)}

NoSetResult == [panic |-> FALSE, data |-> Nil]

PathIdle == ppc = "idle" /\ pout = NoSetResult /\ pgot = Nil

\* No call of setValueByPath or getValueByPath is made.
PathParked ==
    /\ pdata = EmptyMap /\ pkeys = <<>> /\ pvalue = Nil
    /\ PathIdle

PathInit ==
    /\ pdata \in DataMaps \cup {NilMap, ArrayExisting}
    /\ pkeys \in Paths
    /\ pvalue \in SetValues
    /\ PathIdle

\* setValueByPath(pdata, pkeys, pvalue)
SetValueByPath ==
    /\ ppc = "idle"
    /\ pout' = setValueByPath(pdata, pkeys, pvalue)
    /\ ppc' = "set"
    /\ UNCHANGED <<pdata, pkeys, pvalue, pgot>>
    /\ UNCHANGED nonPathVars

\* getValueByPath(pdata, pkeys)
GetValueByPath ==
    /\ ppc = "idle"
    /\ pgot' = getValueByPath(pdata, pkeys)
    /\ ppc' = "got"
    /\ UNCHANGED <<pdata, pkeys, pvalue, pout>>
    /\ UNCHANGED nonPathVars

\* getValueByPath on the map a returned setValueByPath has written.
GetAfterSet ==
    /\ ppc = "set" /\ ~pout.panic
    /\ pgot' = getValueByPath(pout.data, pkeys)
    /\ ppc' = "setgot"
    /\ UNCHANGED <<pdata, pkeys, pvalue, pout>>
    /\ UNCHANGED nonPathVars

PathNext ==
    \/ SetValueByPath
    \/ GetValueByPath
    \/ GetAfterSet

----------------------------------------------------------------------------
(* buildRequest (api_client.go, not among the sources): the request follows *)
(* the specification's section 4.4 and what TestBuildRequest, Test_sdkHeader *)
(* and TestSendStreamRequest expect.  A URL path and a path argument are     *)
(* sequences of segments; an empty segment would be a double slash.          *)

Methods == {"GET", "POST", "PATCH", "DELETE"}

\* The ClientConfigs of the tests: an API key on the Gemini API backend, no key
\* at all, and project, location and credentials on the Vertex AI backend.
Configs ==
    [backend : {"mldev"}, apiKey : {"test-api-key", ""}, project : {""},
     location : {""}, baseURL : {"https://host", ":invalid"}]
    \cup [backend : {"vertex"}, apiKey : {""}, project : {"test-project"},
          location : {"test-location"}, baseURL : {"https://host", ":invalid"}]

APIVersion(cfg) == IF cfg.backend = "vertex" THEN "v1beta1" ELSE "v1beta"

RelativePaths ==
    {<<"models", "test-model:generateContent">>,
     <<"publishers", "google", "models", "model-name">>,
     <<"cachedContents">>}

\* The fully-qualified form of a relative path.
Qualified(cfg, path) ==
    <<"projects", cfg.project, "locations", cfg.location>> \o path

BuildPaths(cfg) ==
    RelativePaths \cup
    (IF cfg.backend = "vertex" THEN {Qualified(cfg, p) : p \in RelativePaths} ELSE {})

BodyKeys == <<"a", "key">>

\* A body: each key is absent ("") or holds a string; "chan" is a value that
\* json cannot encode.
Bodies == [1..Len(BodyKeys) -> {"", "value", "chan"}]

IsEmptyBody(body) == \A i \in DOMAIN body : body[i] = ""

\* json.NewEncoder(..).Encode(body): the object's text, keys in order, and
\* the newline the encoder adds.
RECURSIVE EncodePairs(_, _, _)
EncodePairs(body, i, first) ==
    IF i > Len(BodyKeys) THEN <<>>
    ELSE IF body[i] = "" THEN EncodePairs(body, i + 1, first)
    ELSE (IF first THEN <<>> ELSE <<",">>)
         \o <<BodyKeys[i], ":", body[i]>> \o EncodePairs(body, i + 1, FALSE)

Encode(body) == <<"{">> \o EncodePairs(body, 1, TRUE) \o <<"}", "LF">>

Encodable(body) == \A i \in DOMAIN body : body[i] # "chan"

SDKInfo == "google-genai-sdk/version gl-go/version"

HeaderNames ==
    {"Content-Type", "X-Goog-Api-Key", "User-Agent", "X-Goog-Api-Client",
     "X-Test-Header", "Authorization"}

\* The headers a caller passes in HTTPOptions.Headers in the tests.
CallerHeaders ==
    {h \in [HeaderNames -> {"", "test-value"}] : h["Authorization"] = ""}

\* sdkHeader: the defaults of every request.
sdkHeader(cfg) ==
    [n \in HeaderNames |->
        CASE n = "Content-Type" -> "application/json"
          [] n = "User-Agent" -> SDKInfo
          [] n = "X-Goog-Api-Client" -> SDKInfo
          [] n = "X-Goog-Api-Key" -> cfg.apiKey
          [] OTHER -> ""]

\* A variant of mergeHeaders in which the default wins over the caller's header.
mergeHeadersDefaultWins(cfg, caller) ==
    [n \in HeaderNames |-> IF sdkHeader(cfg)[n] # "" THEN sdkHeader(cfg)[n] ELSE caller[n]]

\* The header set of the request: the caller's header where there is one,
\* the default otherwise ("" stands for a header that is not set).
mergeHeaders(cfg, caller) ==
    [n \in HeaderNames |-> IF caller[n] # "" THEN caller[n] ELSE sdkHeader(cfg)[n]]

IsQualified(path) == Head(path) = "projects"

IsBaseModelQuery(path, method) ==
    /\ method = "GET" /\ Len(path) >= 3
    /\ SubSeq(path, 1, 3) = <<"publishers", "google", "models">>

\* A variant of createAPIURL that prefixes every path on Vertex AI.
createAPIURLAlwaysPrefix(cfg, path, method) ==
    <<cfg.baseURL, APIVersion(cfg)>>
    \o (IF cfg.backend = "vertex" THEN Qualified(cfg, path) ELSE path)

\* createAPIURL: base URL, API version and path; on Vertex AI the project and
\* location come first unless the path is fully qualified or the call is a
\* GET of a publisher's base model.
createAPIURL(cfg, path, method) ==
    <<cfg.baseURL, APIVersion(cfg)>>
    \o (IF cfg.backend = "vertex" /\ ~IsQualified(path) /\ ~IsBaseModelQuery(path, method)
        THEN Qualified(cfg, path) ELSE path)

\* A variant of requestBody that encodes the empty map as well.
requestBodyAlwaysEncoded(body) == Encode(body)

\* The payload: nothing for an empty map, its encoding otherwise.
requestBody(body) == IF IsEmptyBody(body) THEN <<>> ELSE Encode(body)

NoHeaders == [n \in HeaderNames |-> ""]

NoRequest == [err |-> "none", method |-> "", url |-> <<>>, header |-> NoHeaders, body |-> <<>>]

BuildIdle == bpc = "idle" /\ breq = NoRequest

\* buildRequest is not called.
BuildParked ==
    /\ bcfg = [backend |-> "mldev", apiKey |-> "", project |-> "", location |-> "",
               baseURL |-> "https://host"]
    /\ bpath = <<"cachedContents">> /\ bmethod = "GET"
    /\ bbody = [i \in 1..Len(BodyKeys) |-> ""] /\ bheaders = NoHeaders
    /\ BuildIdle

BuildInit ==
    /\ bcfg \in Configs
    /\ bpath \in BuildPaths(bcfg)
    /\ bmethod \in Methods
    /\ bbody \in Bodies
    /\ bheaders \in CallerHeaders
    /\ BuildIdle

\* buildRequest(ctx, ac, path, body, method, httpOptions)
buildRequest ==
    /\ bpc = "idle"
    /\ bpc' = "done"
    /\ breq' =
          IF bcfg.baseURL = ":invalid"
          THEN [NoRequest EXCEPT !.err = "createAPIURL: error parsing"]
          ELSE IF ~Encodable(bbody)
          THEN [NoRequest EXCEPT !.err = "buildRequest: error encoding body"]
          ELSE [err |-> "none", method |-> bmethod,
                url |-> createAPIURL(bcfg, bpath, bmethod),
                header |-> mergeHeaders(bcfg, bheaders),
                body |-> requestBody(bbody)]
    /\ UNCHANGED <<bcfg, bpath, bmethod, bbody, bheaders>>
    /\ UNCHANGED nonBuildVars

BuildNext == buildRequest

----------------------------------------------------------------------------
(* Resumable upload.  uploadFile reads the source chunk by chunk and sends  *)
(* every chunk in a request of its own; the server is the handler of        *)
(* mockUploadServer.  A chunk is modelled by its number of bytes.           *)

\* The number of bytes the next read of the source returns: a full chunk, or
\* what is left of the source.
chunkLen(size, offset) ==
    IF size - offset < maxChunkSize THEN size - offset ELSE maxChunkSize

\* A variant of uploadCommand that marks every chunk as the last one.
uploadCommandAlwaysFinalize(n) == "upload, finalize"

\* X-Goog-Upload-Command: a read that came up short of a full chunk has
\* reached the end of the source, and its chunk is the last one.
uploadCommand(n) == IF n < maxChunkSize THEN "upload, finalize" ELSE "upload"

\* A variant of nextOffset that never advances.
nextOffsetStays(offset, n) == offset

\* The running total after a chunk of n bytes was sent at offset.
nextOffset(offset, n) == offset + n

\* echoed = -1: the response carries no received-bytes offset;
\* sizeBytes = -1: the response carries no file.
UploadResponse(code, status, sizeBytes) ==
    [code |-> code, status |-> status, sizeBytes |-> sizeBytes, echoed |-> -1]

NoUploadResponse == UploadResponse(0, "", -1)

IsFinalize(command) == command = "upload, finalize"

\* The handler of mockUploadServer: the response to req and the new value of
\* totalReceived.
mockUploadServer(req, total, expectedSize) ==
    IF req.method # "POST"
    THEN [resp |-> UploadResponse(405, "", -1), total |-> total]
    ELSE IF req.offset # total
    THEN [resp |-> UploadResponse(400, "", -1), total |-> total]
    ELSE IF req.body # req.contentLength
    THEN [resp |-> UploadResponse(400, "", -1), total |-> total]
    ELSE LET currentTotal == total + req.contentLength IN
         IF IsFinalize(req.command)
         THEN IF currentTotal # expectedSize
              THEN [resp |-> UploadResponse(400, "", -1), total |-> currentTotal]
              ELSE [resp |-> UploadResponse(200, "final", currentTotal),
                    total |-> currentTotal]
         ELSE [resp |-> UploadResponse(200, "active", -1), total |-> currentTotal]

NoFile == [err |-> "none", sizeBytes |-> -1]

UploadIdle ==
    /\ upc = "idle" /\ uoffset = 0 /\ usent = <<>> /\ uresp = NoUploadResponse
    /\ uhandled = <<>> /\ totalReceived = 0 /\ ufile = NoFile

\* uploadFile is not called.
UploadParked == usize = 0 /\ userver = "mock" /\ UploadIdle

\* uploadFile, one pass of its loop up to the request: read the next chunk
\* and send it.  A request is its method, X-Goog-Upload-Command,
\* X-Goog-Upload-Offset, Content-Length and the number of bytes of its body.
uploadChunk ==
    /\ upc = "idle"
    /\ LET n == chunkLen(usize, uoffset) IN
       usent' = Append(usent, [method |-> "POST", command |-> uploadCommand(n),
                               offset |-> uoffset, contentLength |-> n, body |-> n])
    /\ upc' = "sent"
    /\ UNCHANGED <<usize, userver, uoffset, uresp, uhandled, totalReceived, ufile>>
    /\ UNCHANGED nonUploadVars

\* The server handles the request in flight.  The echoing server answers as
\* mockUploadServer does and adds the offset it has received up to, which a
\* faulty server reports wrongly.
serveUpload ==
    /\ upc = "sent"
    /\ LET out == mockUploadServer(usent[Len(usent)], totalReceived, usize) IN
       /\ totalReceived' = out.total
       /\ \E echoed \in IF userver = "echoing" /\ out.resp.code = 200
                        THEN {out.total, out.total + 1} ELSE {-1} :
             uresp' = [out.resp EXCEPT !.echoed = echoed]
    /\ upc' = "answered"
    /\ UNCHANGED <<usize, userver, uoffset, usent, uhandled, ufile>>
    /\ UNCHANGED nonUploadVars

\* uploadFile, the rest of the pass: the response to the chunk.
uploadResponse ==
    /\ upc = "answered"
    /\ LET req == usent[Len(usent)]
           total == nextOffset(uoffset, req.contentLength) IN
       /\ uhandled' = Append(uhandled, uresp)
       /\ uresp' = NoUploadResponse
       /\ IF uresp.code >= 400
          THEN upc' = "failed" /\ ufile' = [NoFile EXCEPT !.err = "api"]
               /\ UNCHANGED uoffset
          ELSE IF uresp.echoed # -1 /\ uresp.echoed # total
          THEN upc' = "failed" /\ ufile' = [NoFile EXCEPT !.err = "offset mismatch"]
               /\ UNCHANGED uoffset
          ELSE IF uresp.status = "final"
          THEN upc' = "done" /\ uoffset' = total
               /\ ufile' = [err |-> "none", sizeBytes |-> uresp.sizeBytes]
          ELSE IF IsFinalize(req.command) \/ uresp.status # "active"
          THEN upc' = "failed" /\ uoffset' = total
               /\ ufile' = [NoFile EXCEPT !.err = "upload not finalized"]
          ELSE upc' = "idle" /\ uoffset' = total /\ UNCHANGED ufile
    /\ UNCHANGED <<usize, userver, usent, totalReceived>>
    /\ UNCHANGED nonUploadVars

UploadNext == uploadChunk \/ serveUpload \/ uploadResponse

----------------------------------------------------------------------------
(* Pagination.  Files.All requests the first page without a page token,     *)
(* yields the items of the page it holds and requests the next page with    *)
(* the token of the page it holds, until a page carries no token.  The      *)
(* server is the handler of TestFilesAll.                                   *)

RECURSIVE ItemsBefore(_, _)
\* The number of items of the first k pages, sz their sizes.
ItemsBefore(sz, k) ==
    IF k = 0 THEN 0 ELSE ItemsBefore(sz, k - 1) + sz[k]

\* The pages a server holds: sizes and tokens; the files are numbered in the
\* order the server holds them, and the last page carries no token.
PageLists ==
    UNION {
      { [i \in 1..n |->
            [files |-> [j \in 1..sz[i] |-> j + ItemsBefore(sz, i - 1)],
             nextPageToken |-> tk[i]]] :
          sz \in [1..n -> 0..MaxPageItems],
          tk \in {t \in [1..n -> {"", "next_page_token", "other_page_token"}] :
                       t[n] = ""} } :
      n \in 1..MaxPages }

NoPage == [files |-> <<>>, nextPageToken |-> ""]

\* The handler of TestFilesAll's server: the status and the page it answers
\* a request with.
listServer(pageToken, pages, index) ==
    IF index > 0 /\ pageToken = ""
    THEN [code |-> 400, page |-> NoPage]
    ELSE [code |-> 200, page |-> pages[index + 1]]

\* A variant of nextPageRequest that always asks for the first page.
nextPageRequestNoToken(page) == ""

\* The page token of the request for the page after the one held.
nextPageRequest(page) == page.nextPageToken

PageIdle ==
    /\ responseIndex = 0 /\ gpc = "idle" /\ greqs = <<>> /\ gpage = NoPage
    /\ gpos = 0 /\ gotFiles = <<>> /\ gerr = "none"

\* Files.All is not called.
PageParked == serverResponses = <<NoPage>> /\ PageIdle

\* Files.All: the request for the first page.
firstPage ==
    /\ gpc = "idle"
    /\ greqs' = <<"">>
    /\ gpc' = "requested"
    /\ UNCHANGED <<serverResponses, responseIndex, gpage, gpos, gotFiles, gerr>>
    /\ UNCHANGED nonPageVars

\* The server answers the request in flight, and the iterator takes the page
\* or yields the error.
servePage ==
    /\ gpc = "requested"
    /\ LET out == listServer(greqs[Len(greqs)], serverResponses, responseIndex) IN
       IF out.code = 200
       THEN /\ responseIndex' = responseIndex + 1
            /\ gpage' = out.page /\ gpos' = 0 /\ gpc' = "yielding"
            /\ UNCHANGED gerr
       ELSE /\ gerr' = "api" /\ gpc' = "failed"
            /\ UNCHANGED <<responseIndex, gpage, gpos>>
    /\ UNCHANGED <<serverResponses, greqs, gotFiles>>
    /\ UNCHANGED nonPageVars

\* The iterator yields the next item of the page it holds.
yieldItem ==
    /\ gpc = "yielding" /\ gpos < Len(gpage.files)
    /\ gpos' = gpos + 1
    /\ gotFiles' = Append(gotFiles, gpage.files[gpos + 1])
    /\ UNCHANGED <<serverResponses, responseIndex, gpc, greqs, gpage, gerr>>
    /\ UNCHANGED nonPageVars

\* The page is used up: the iterator ends when the page carries no token,
\* and requests the next page with the token otherwise.
nextPage ==
    /\ gpc = "yielding" /\ gpos = Len(gpage.files)
    /\ IF gpage.nextPageToken = ""
       THEN gpc' = "done" /\ UNCHANGED greqs
       ELSE gpc' = "requested" /\ greqs' = Append(greqs, nextPageRequest(gpage))
    /\ UNCHANGED <<serverResponses, responseIndex, gpage, gpos, gotFiles, gerr>>
    /\ UNCHANGED nonPageVars

PageNext == firstPage \/ servePage \/ yieldItem \/ nextPage

----------------------------------------------------------------------------
(* Chat.  A content is its role and its parts; a part is its text, the     *)
(* empty text standing for a part that holds no text (a function call, a   *)
(* blob).  GenerateContent is the rest of the library and the backend: it  *)
(* returns an error, or a response with its candidates.                    *)

Content(role, parts) == [role |-> role, parts |-> parts]

\* The histories handed to Chats.Create: none, and the one of
\* TestChatsHistory.
Histories ==
    { <<>>,
      <<Content("user", <<"What is 1 + 2?">>), Content("model", <<"3">>)>> }

\* The parts handed to SendMessage: none, one, two.
UserParts == {<<>>, <<"Add 1">>, <<"What is 1 + 2?", "Add 1">>}

\* A candidate whose Content is nil.
NilContent == [nil |-> TRUE, content |-> Content("", <<>>)]

\* What GenerateContent returns: an error, or the candidates of the response.
Responses ==
    {[err |-> TRUE, candidates |-> <<>>], [err |-> FALSE, candidates |-> <<>>]}
    \cup {[err |-> FALSE, candidates |-> <<c>>] :
             c \in {NilContent} \cup
                   {[nil |-> FALSE, content |-> Content("model", ps)] :
                        ps \in {<<>>, <<"">>, <<"1 + 2 = 3">>, <<"", "1 + 2 = 3">>}}}
    \cup {[err |-> FALSE,
           candidates |-> <<c, [nil |-> FALSE, content |-> Content("model", <<"other">>)]>>] :
             c \in {NilContent,
                    [nil |-> FALSE, content |-> Content("model", <<"1 + 2 = 3">>)]}}

NoOutput == [err |-> FALSE, candidates |-> <<>>]

\* A variant of copySanitizedModelContent that keeps every part.
copyAllParts(modelContent) == Content("model", modelContent.parts)

\* copySanitizedModelContent: role model, the parts with empty text removed.
copySanitizedModelContent(modelContent) ==
    Content("model", SelectSeq(modelContent.parts, LAMBDA text : text # ""))

\* recordHistory: the history after the call.
recordHistory(history, inputContent, cands) ==
    LET h == Append(history, inputContent) IN
    IF Len(cands) > 0 /\ ~cands[1].nil
    THEN Append(h, copySanitizedModelContent(cands[1].content))
    ELSE h

\* A variant of userContent in which every part is the last one passed.
userContentLastPart(parts) ==
    Content("user", [i \in 1..Len(parts) |-> parts[Len(parts)]])

\* SendMessage, lines 85-89: the parts of the call as one user content.
userContent(parts) == Content("user", parts)

\* No chat is used.
ChatParked ==
    /\ comprehensiveHistory = <<>> /\ cparts = <<>> /\ contents = <<>>
    /\ modelOutput = NoOutput /\ csends = 0

\* A variant of SendMessage that records the history also when
\* GenerateContent fails.
SendMessageAlwaysRecords ==
    /\ csends < MaxSends
    /\ \E parts \in UserParts, out \in Responses :
          /\ cparts' = parts
          /\ contents' = Append(comprehensiveHistory, userContent(parts))
          /\ modelOutput' = out
          /\ comprehensiveHistory' =
                recordHistory(comprehensiveHistory, userContent(parts), out.candidates)
    /\ csends' = csends + 1
    /\ UNCHANGED nonChatVars

\* Chat.SendMessage(ctx, parts...), GenerateContent answering with out.
SendMessage ==
    /\ csends < MaxSends
    /\ \E parts \in UserParts, out \in Responses :
          /\ cparts' = parts
          /\ contents' = Append(comprehensiveHistory, userContent(parts))
          /\ modelOutput' = out
          /\ comprehensiveHistory' =
                IF out.err THEN comprehensiveHistory
                ELSE recordHistory(comprehensiveHistory, userContent(parts), out.candidates)
    /\ csends' = csends + 1
    /\ UNCHANGED nonChatVars

\* ---------------------------------------------------------------------
\* The structural converters on maps held by reference.  A heap is a
\* sequence of maps; the address of a map is its index; a value of type
\* map[string]any is Ref(address), so that two values can be the same map.

Ref(a) == [t |-> "ref", a |-> a]

\* The nil slice applyConverterToSlice returns for no input.
NilSlice == [t |-> "nilslice"]

\* What a converter returns: the heap, the address of toObject (0 for nil)
\* and whether it returned an error.
Converted(h, to) == [h |-> h, to |-> to, err |-> FALSE]

ConvertFailed(h) == [h |-> h, to |-> 0, err |-> TRUE]

\* A variant of make that hands out the map at address 1 again.
makeReuses(h) == Converted(h, 1)

\* toObject = make(map[string]any)
make(h) == Converted(Append(h, <<>>), Len(h) + 1)

\* getValueByPath on the map at address a.
RECURSIVE getValueByPathAt(_, _, _)
getValueByPathAt(h, current, keys) ==
    IF keys = <<>> THEN current
    ELSE IF current.t = "ref" /\ Head(keys) \in DOMAIN h[current.a]
         THEN getValueByPathAt(h, h[current.a][Head(keys)], Tail(keys))
         ELSE Nil

\* setValueByPath on the map at address a: the maps on the way are the ones
\* found there, or new ones.
RECURSIVE setValueByPathAt(_, _, _, _)
setValueByPathAt(h, a, keys, value) ==
    IF IsNil(value) THEN h
    ELSE IF Len(keys) = 1
         THEN IF IsZero(value) \/ value = NilSlice THEN h
              ELSE [h EXCEPT ![a] = Put(h[a], keys[1], value)]
    ELSE LET key == Head(keys) IN
         IF key \in DOMAIN h[a] /\ h[a][key].t = "ref"
         THEN setValueByPathAt(h, h[a][key].a, Tail(keys), value)
         ELSE setValueByPathAt(Append([h EXCEPT ![a] = Put(h[a], key, Ref(Len(h) + 1))], <<>>),
                               Len(h) + 1, Tail(keys), value)

\* fromX := getValueByPath(fromObject, {key}); if fromX != nil
\* { setValueByPath(target, path, fromX) }
copyValue(h, from, key, target, path) ==
    setValueByPathAt(h, target, path, getValueByPathAt(h, Ref(from), <<key>>))

\* copyValue for each of the keys into toObject under the same key.
RECURSIVE copyValues(_, _, _, _)
copyValues(h, from, keys, to) ==
    IF keys = <<>> THEN h
    ELSE copyValues(copyValue(h, from, Head(keys), to, <<Head(keys)>>), from, Tail(keys), to)

\* contentToMldev, contentToVertex, contentFromMldev, contentFromVertex.
contentTo(b, h, from) ==
    LET m == make(h) IN Converted(copyValues(m.h, from, <<"parts", "role">>, m.to), m.to)

\* functionResponseToMldev, functionResponseToVertex.
functionResponseTo(b, h, from) ==
    LET m == make(h) IN
    IF b = "vertex"
    THEN IF ~IsNil(getValueByPathAt(m.h, Ref(from), <<"id">>)) THEN ConvertFailed(m.h)
         ELSE Converted(copyValues(m.h, from, <<"name", "response">>, m.to), m.to)
    ELSE Converted(copyValues(m.h, from, <<"id", "name", "response">>, m.to), m.to)

\* functionCallFromMldev, functionCallFromVertex.
functionCallFrom(b, h, from) ==
    LET m == make(h) IN
    Converted(copyValues(m.h, from,
                         IF b = "vertex" THEN <<"args", "name">> ELSE <<"id", "args", "name">>,
                         m.to), m.to)

\* The converter applyConverterToSlice is handed.
converter(c, b, h, from) ==
    IF c = "content" THEN contentTo(b, h, from)
    ELSE IF c = "functionResponse" THEN functionResponseTo(b, h, from)
    ELSE functionCallFrom(b, h, from)

\* The element of a set of one element.  A result that is used more than
\* once is written as the one element of a set, so that it is computed once.
The(S) == CHOOSE x \in S : TRUE

\* applyConverterToSlice: the converted maps in a new slice, or an error.
RECURSIVE applyConverterToSlice(_, _, _, _, _)
applyConverterToSlice(c, b, h, inputs, outputs) ==
    IF inputs = <<>>
    THEN [h |-> h, err |-> FALSE,
          outputs |-> IF outputs = <<>> THEN NilSlice ELSE List(outputs)]
    ELSE The({ IF r.err THEN [h |-> r.h, err |-> TRUE, outputs |-> NilSlice]
               ELSE applyConverterToSlice(c, b, r.h, Tail(inputs), Append(outputs, Ref(r.to)))
               : r \in {converter(c, b, h, Head(inputs).a)} })

\* fromX := getValueByPath(fromObject, {key}); if fromX != nil { fromX, err =
\* applyConverterToSlice(fromX, c); setValueByPath(toObject, {key}, fromX) }
convertSlice(c, b, m, from, key) ==
    IF IsNil(getValueByPathAt(m.h, Ref(from), <<key>>)) THEN m
    ELSE The({ IF r.err THEN ConvertFailed(r.h)
               ELSE Converted(setValueByPathAt(r.h, m.to, <<key>>, r.outputs), m.to)
               : r \in {applyConverterToSlice(c, b, m.h,
                                              getValueByPathAt(m.h, Ref(from), <<key>>).l,
                                              <<>>)} })

\* fromX := getValueByPath(fromObject, {key}); if fromX != nil { fromX, err =
\* the converter ran on it; setValueByPath(target, path, fromX) }: converted
\* is the converter's result, m the caller's heap and toObject.  A caller
\* that has failed stays failed.
store(m, present, converted, target, path) ==
    IF m.err \/ ~present THEN m
    ELSE The({ IF r.err THEN ConvertFailed(r.h)
               ELSE Converted(setValueByPathAt(r.h, target, path, Ref(r.to)), m.to)
               : r \in {converted} })

Has(h, from, key) == ~IsNil(getValueByPathAt(h, Ref(from), <<key>>))

At(h, from, key) == getValueByPathAt(h, Ref(from), <<key>>).a

\* liveConnectConfigToMldev, liveConnectConfigToVertex: the fields go to
\* parentObject, the map returned stays empty.
liveConnectConfigTo(b, h, from, parentObject) ==
    The({ store(m3, Has(m3.h, from, "systemInstruction"),
                contentTo(b, m3.h, At(m3.h, from, "systemInstruction")),
                parentObject, <<"setup", "systemInstruction">>)
          : m3 \in { Converted(copyValue(m2.h, from, "speechConfig", parentObject,
                                         <<"setup", "generationConfig", "speechConfig">>), m2.to)
          : m2 \in { Converted(copyValue(m1.h, from, "temperature", parentObject,
                                         <<"setup", "generationConfig", "temperature">>), m1.to)
          : m1 \in { Converted(copyValue(m.h, from, "responseModalities", parentObject,
                                         <<"setup", "generationConfig", "responseModalities">>), m.to)
          : m \in {make(h)} } } } })

\* liveConnectParametersToMldev, liveConnectParametersToVertex.
liveConnectParametersToMap(b, h, from) ==
    The({ store(m1, Has(m1.h, from, "config"),
                liveConnectConfigTo(b, m1.h, At(m1.h, from, "config"), m1.to),
                m1.to, <<"config">>)
          : m1 \in { Converted(copyValue(m.h, from, "model", m.to, <<"setup", "model">>), m.to)
          : m \in {make(h)} } })

\* liveClientSetupToMldev, liveClientSetupToVertex.
liveClientSetupTo(b, h, from) ==
    The({ store(m1, Has(m1.h, from, "systemInstruction"),
                contentTo(b, m1.h, At(m1.h, from, "systemInstruction")),
                m1.to, <<"systemInstruction">>)
          : m1 \in { Converted(copyValues(m.h, from, <<"model", "generationConfig">>, m.to), m.to)
          : m \in {make(h)} } })

\* liveClientContentToMldev, liveClientContentToVertex.
liveClientContentTo(b, h, from) ==
    The({ IF m1.err THEN m1
          ELSE Converted(copyValue(m1.h, from, "turnComplete", m1.to, <<"turnComplete">>), m1.to)
          : m1 \in { convertSlice("content", b, m, from, "turns") : m \in {make(h)} } })

\* liveClientRealtimeInputToMldev, liveClientRealtimeInputToVertex.
liveClientRealtimeInputTo(b, h, from) ==
    LET m == make(h) IN Converted(copyValues(m.h, from, <<"mediaChunks">>, m.to), m.to)

\* liveClientToolResponseToMldev, liveClientToolResponseToVertex.
liveClientToolResponseTo(b, h, from) ==
    The({ convertSlice("functionResponse", b, m, from, "functionResponses") : m \in {make(h)} })

\* liveClientMessageToMldev, liveClientMessageToVertex: the converted fields
\* go to parentObject, the map returned stays empty.
liveClientMessageTo(b, h, from, parentObject) ==
    The({ store(m3, Has(m3.h, from, "toolResponse"),
                liveClientToolResponseTo(b, m3.h, At(m3.h, from, "toolResponse")),
                parentObject, <<"toolResponse">>)
          : m3 \in { store(m2, Has(m2.h, from, "realtimeInput"),
                           liveClientRealtimeInputTo(b, m2.h, At(m2.h, from, "realtimeInput")),
                           parentObject, <<"realtimeInput">>)
          : m2 \in { store(m1, Has(m1.h, from, "clientContent"),
                           liveClientContentTo(b, m1.h, At(m1.h, from, "clientContent")),
                           parentObject, <<"clientContent">>)
          : m1 \in { store(m, Has(m.h, from, "setup"),
                           liveClientSetupTo(b, m.h, At(m.h, from, "setup")),
                           parentObject, <<"setup">>)
          : m \in {make(h)} } } } })

\* liveSendParametersToMldev, liveSendParametersToVertex.
liveSendParametersToMap(b, h, from) ==
    The({ store(m, Has(m.h, from, "input"),
                liveClientMessageTo(b, m.h, At(m.h, from, "input"), m.to),
                m.to, <<"input">>)
          : m \in {make(h)} })

\* liveServerContentFromMldev, liveServerContentFromVertex.
liveServerContentFrom(b, h, from) ==
    The({ IF m1.err THEN m1
          ELSE Converted(copyValues(m1.h, from,
                                    <<"turnComplete", "interrupted", "generationComplete">>,
                                    m1.to), m1.to)
          : m1 \in { store(m, Has(m.h, from, "modelTurn"),
                           contentTo(b, m.h, At(m.h, from, "modelTurn")), m.to, <<"modelTurn">>)
          : m \in {make(h)} } })

\* liveServerToolCallFromMldev, liveServerToolCallFromVertex.
liveServerToolCallFrom(b, h, from) ==
    The({ convertSlice("functionCall", b, m, from, "functionCalls") : m \in {make(h)} })

\* liveServerToolCallCancellationFromMldev, liveServerToolCallCancellationFromVertex.
liveServerToolCallCancellationFrom(b, h, from) ==
    LET m == make(h) IN Converted(copyValues(m.h, from, <<"ids">>, m.to), m.to)

\* liveServerMessageFromMldev, liveServerMessageFromVertex.
liveServerMessageFromMap(b, h, from) ==
    The({ store(m3, Has(m3.h, from, "toolCallCancellation"),
                liveServerToolCallCancellationFrom(b, m3.h,
                                                   At(m3.h, from, "toolCallCancellation")),
                m3.to, <<"toolCallCancellation">>)
          : m3 \in { store(m2, Has(m2.h, from, "toolCall"),
                           liveServerToolCallFrom(b, m2.h, At(m2.h, from, "toolCall")),
                           m2.to, <<"toolCall">>)
          : m2 \in { store(m1, Has(m1.h, from, "serverContent"),
                           liveServerContentFrom(b, m1.h, At(m1.h, from, "serverContent")),
                           m1.to, <<"serverContent">>)
          : m1 \in { store(m, Has(m.h, from, "setupComplete"), make(m.h),
                           m.to, <<"setupComplete">>)
          : m \in {make(h)} } } } })

\* The functions on the keys ks with values among vs, and those on fewer keys.
Fields(choices) ==
    UNION { [ks -> UNION {choices[k] : k \in ks}] : ks \in SUBSET DOMAIN choices }

\* The maps with, for every key of choices, no entry or one of its values.
Maps(choices) ==
    { f \in Fields(choices) : \A k \in DOMAIN f : f[k] \in choices[k] }

\* The maps every source heap holds at addresses 1 to 3: a leaf map (a
\* generation config, a speech config, arguments), a content and a function
\* response or call with an id.
Leaves ==
    << [voice |-> Str("v")],
       [role |-> Str("user"), parts |-> List(<<Str("hi")>>)],
       [id |-> Str("id1"), name |-> Str("f"), response |-> Ref(1), args |-> Ref(1)] >>

\* Heaps holding a source of liveConnectParametersTo at address 5.
ConnectSources ==
    { Leaves \o <<cfg, root>> :
        cfg \in Maps([temperature |-> {Str("0.5")}, speechConfig |-> {Ref(1)},
                      systemInstruction |-> {Ref(2)}]),
        root \in Maps([model |-> {Str(""), Str("m")}, config |-> {Ref(4)}]) }

\* Heaps holding a source of liveSendParametersTo at address 6.
SendSources ==
    { Leaves \o <<sub, input, [input |-> Ref(5)]>> :
        sub \in Maps([model |-> {Str("m")}, generationConfig |-> {Ref(1)},
                      turns |-> {List(<<Ref(2)>>)}, turnComplete |-> {Bool(TRUE), Bool(FALSE)},
                      functionResponses |-> {List(<<Ref(3)>>), List(<<>>)}]),
        input \in { [k \in {key} |-> Ref(4)] :
                      key \in {"setup", "clientContent", "realtimeInput", "toolResponse"} } }

\* Heaps holding a source of liveServerMessageFrom at address 5.
ServerSources ==
    { Leaves \o <<sub, root>> :
        sub \in Maps([modelTurn |-> {Ref(2)}, turnComplete |-> {Bool(TRUE)},
                      functionCalls |-> {List(<<Ref(3)>>)}, ids |-> {List(<<Str("id1")>>)}]),
        root \in { [k \in {key} |-> Ref(4)] :
                      key \in {"setupComplete", "serverContent", "toolCall",
                               "toolCallCancellation"} } }

NotConverted == ConvertFailed(<<>>)

\* No converter is called.
ConvParked ==
    /\ vbackend = "mldev" /\ vkind = "send" /\ vheap = <<>> /\ vsrc = 0
    /\ vpc = "idle" /\ vout = NotConverted

\* One call of a converter, fromObject being the map at vsrc.
Convert ==
    /\ vpc = "idle"
    /\ vout' = IF vkind = "connect" THEN liveConnectParametersToMap(vbackend, vheap, vsrc)
               ELSE IF vkind = "send" THEN liveSendParametersToMap(vbackend, vheap, vsrc)
               ELSE liveServerMessageFromMap(vbackend, vheap, vsrc)
    /\ vpc' = "done"
    /\ UNCHANGED <<vbackend, vkind, vheap, vsrc>>
    /\ UNCHANGED nonConvVars

\* ---------------------------------------------------------------------
\* One open session with a goroutine that sends and a goroutine that
\* receives, as in the live sample.  Each call is split where it touches
\* the socket, so that the two calls interleave.

\* The messages the sender hands to Session.send.
DuplexMessages ==
    { ClientMessage("clientContent", TRUE, FALSE), ClientMessage("realtimeInput", FALSE, FALSE),
      ClientMessage("toolResponse", FALSE, TRUE), ClientMessage("setup", FALSE, FALSE) }

\* conn.WriteMessage(websocket.TextMessage, data): one message on the socket.
WriteMessage(w, data) == Append(w, data)

\* A variant of ReadMessage that leaves the message it returns in the socket.
ReadMessageKeeps(q) == [msgBytes |-> Head(q), rest |-> q]

\* conn.ReadMessage(): the next whole message of the socket.
ReadMessage(q) == [msgBytes |-> Head(q), rest |-> Tail(q)]

\* No goroutine uses a session.
DuplexParked ==
    /\ dbackend = "mldev" /\ dwritten = <<>> /\ darrived = <<>> /\ dinbox = <<>>
    /\ spc = "idle" /\ sdata = SetupFrame /\ sendLog = <<>>
    /\ rpc = "idle" /\ msgBytes = NoFrame /\ recvLog = <<>> /\ dcrashed = FALSE

\* Session.send(m) up to json.Marshal: the sender's goroutine holds the frame
\* in its local data, or the call has returned an error.
SendMarshal(m) ==
    /\ ~dcrashed /\ spc = "idle" /\ Len(sendLog) < MaxWrites
    /\ IF send(dbackend, m) = "write"
         THEN /\ sdata' = liveSendParametersTo(dbackend, m).frame
              /\ spc' = "marshalled"
              /\ UNCHANGED sendLog
         ELSE /\ sendLog' = Append(sendLog, [msg |-> m, err |-> TRUE])
              /\ UNCHANGED <<sdata, spc>>
    /\ UNCHANGED <<dbackend, dwritten, darrived, dinbox, rpc, msgBytes, recvLog, dcrashed>>
    /\ UNCHANGED nonDuplexVars

\* The sender's conn.WriteMessage, which succeeds or fails with the socket.
SendWrite(m, ok) ==
    /\ ~dcrashed /\ spc = "marshalled"
    /\ sdata = liveSendParametersTo(dbackend, m).frame /\ send(dbackend, m) = "write"
    /\ dwritten' = IF ok THEN WriteMessage(dwritten, sdata) ELSE dwritten
    /\ sendLog' = Append(sendLog, [msg |-> m, err |-> ~ok])
    /\ spc' = "idle"
    /\ UNCHANGED <<dbackend, darrived, dinbox, sdata, rpc, msgBytes, recvLog, dcrashed>>
    /\ UNCHANGED nonDuplexVars

\* The receiver's conn.ReadMessage at the start of Session.Receive.
ReceiveRead ==
    /\ ~dcrashed /\ rpc = "idle" /\ dinbox # <<>>
    /\ msgBytes' = ReadMessage(dinbox).msgBytes
    /\ dinbox' = ReadMessage(dinbox).rest
    /\ rpc' = "read"
    /\ UNCHANGED <<dbackend, dwritten, darrived, spc, sdata, sendLog, recvLog, dcrashed>>
    /\ UNCHANGED nonDuplexVars

\* The rest of Session.Receive: decode, convert, return.
ReceiveReturn ==
    /\ ~dcrashed /\ rpc = "read"
    /\ recvLog' = Append(recvLog, [frame |-> msgBytes,
                                   res |-> decodeFrame(dbackend, msgBytes).res,
                                   msg |-> decodeFrame(dbackend, msgBytes).msg])
    /\ dcrashed' = (decodeFrame(dbackend, msgBytes).res = "panic")
    /\ rpc' = "idle"
    /\ UNCHANGED <<dbackend, dwritten, darrived, dinbox, spc, sdata, sendLog, msgBytes>>
    /\ UNCHANGED nonDuplexVars

\* The server sends one frame.
DuplexServerSend(f) ==
    /\ ~dcrashed /\ Len(darrived) < MaxFrames
    /\ darrived' = Append(darrived, f)
    /\ dinbox' = Append(dinbox, f)
    /\ UNCHANGED <<dbackend, dwritten, spc, sdata, sendLog, rpc, msgBytes, recvLog, dcrashed>>
    /\ UNCHANGED nonDuplexVars

DuplexNext ==
    \/ \E m \in DuplexMessages : SendMarshal(m)
    \/ \E m \in DuplexMessages, ok \in BOOLEAN : SendWrite(m, ok)
    \/ ReceiveRead
    \/ ReceiveReturn
    \/ \E f \in ServerFrames : DuplexServerSend(f)

\* ---------------------------------------------------------------------
\* NewClient: the resolution of a ClientConfig from its fields and the
\* environment.

\* The configurations handed to NewClient; "" is an unset field.
ClientConfigs ==
    [backend : {"unspecified", "mldev", "vertex"}, project : {"", "test-project"},
     location : {"", "test-location"}, apiKey : {"", "test-api-key"}]

\* What envVarProvider returns; "" is a variable that is not set.
EnvVars ==
    [GOOGLE_CLOUD_PROJECT : {"", "test-project-env"},
     GOOGLE_CLOUD_LOCATION : {"", "test-location-env"},
     GOOGLE_CLOUD_REGION : {"", "test-region-env"},
     GOOGLE_API_KEY : {"", "test-api-key-env"},
     GOOGLE_GENAI_USE_VERTEXAI : {"", "true", "0"}]

\* The backend of the client: the config's, or the one the environment names.
resolveBackend(cc, env) ==
    IF cc.backend # "unspecified" THEN cc.backend
    ELSE IF env.GOOGLE_GENAI_USE_VERTEXAI = "true" THEN "vertex" ELSE "mldev"

\* The configuration of the client: explicit fields, then the environment.
\* The API key of the environment is read for the Gemini API only.
resolveConfig(cc, env) ==
    [backend |-> resolveBackend(cc, env),
     apiKey |-> IF cc.apiKey # "" THEN cc.apiKey
                ELSE IF resolveBackend(cc, env) = "mldev" THEN env.GOOGLE_API_KEY
                ELSE "",
     project |-> IF cc.project # "" THEN cc.project ELSE env.GOOGLE_CLOUD_PROJECT,
     location |-> IF cc.location # "" THEN cc.location
                  ELSE IF env.GOOGLE_CLOUD_LOCATION # "" THEN env.GOOGLE_CLOUD_LOCATION
                  ELSE env.GOOGLE_CLOUD_REGION]

\* NewClient refuses a config whose own fields name a project or a location
\* together with an API key, a Vertex AI client without project or location,
\* and a Gemini API client without an API key.
rejects(cc, env) ==
    \/ cc.project # "" /\ cc.apiKey # ""
    \/ cc.location # "" /\ cc.apiKey # ""
    \/ /\ resolveBackend(cc, env) = "vertex"
       /\ resolveConfig(cc, env).project = "" \/ resolveConfig(cc, env).location = ""
    \/ resolveBackend(cc, env) = "mldev" /\ resolveConfig(cc, env).apiKey = ""

NoClient == [state |-> "none", clientConfig |-> [backend |-> "unspecified", project |-> "",
                                                  location |-> "", apiKey |-> ""]]

\* NewClient has not been called.
ClientParked ==
    /\ ncc = NoClient.clientConfig
    /\ nenv = [GOOGLE_CLOUD_PROJECT |-> "", GOOGLE_CLOUD_LOCATION |-> "",
               GOOGLE_CLOUD_REGION |-> "", GOOGLE_API_KEY |-> "",
               GOOGLE_GENAI_USE_VERTEXAI |-> ""]
    /\ nclient = NoClient

\* NewClient(ctx, cc).
NewClient ==
    /\ nclient.state = "none"
    /\ nclient' = IF rejects(ncc, nenv) THEN [NoClient EXCEPT !.state = "error"]
                  ELSE [state |-> "client", clientConfig |-> resolveConfig(ncc, nenv)]
    /\ UNCHANGED <<ncc, nenv>>
    /\ UNCHANGED nonClientVars

InitClient ==
    /\ ncc \in ClientConfigs /\ nenv \in EnvVars /\ nclient = NoClient
    /\ LiveParked /\ HttpParked /\ PathParked /\ BuildParked /\ UploadParked
    /\ PageParked /\ CtxParked /\ ChatParked /\ DuplexParked /\ ConvParked

SpecClient == InitClient /\ [][NewClient]_vars

\* Chats.Create(ctx, model, config, history).
InitChat ==
    /\ comprehensiveHistory \in Histories /\ cparts = <<>> /\ contents = <<>>
    /\ modelOutput = NoOutput /\ csends = 0
    /\ LiveParked /\ HttpParked /\ PathParked /\ BuildParked /\ UploadParked
    /\ PageParked /\ CtxParked /\ ClientParked /\ DuplexParked /\ ConvParked

SpecChat == InitChat /\ [][SendMessage]_vars

InitDuplex ==
    /\ dbackend \in {"mldev", "vertex"} /\ dwritten = <<>> /\ darrived = <<>>
    /\ dinbox = <<>> /\ spc = "idle" /\ sdata = SetupFrame /\ sendLog = <<>>
    /\ rpc = "idle" /\ msgBytes = NoFrame /\ recvLog = <<>> /\ dcrashed = FALSE
    /\ LiveParked /\ HttpParked /\ PathParked /\ BuildParked /\ UploadParked
    /\ PageParked /\ CtxParked /\ ChatParked /\ ClientParked /\ ConvParked

SpecDuplex == InitDuplex /\ [][DuplexNext]_vars

InitConv ==
    /\ vbackend \in {"mldev", "vertex"} /\ vkind \in {"connect", "send", "server"}
    /\ vheap \in (IF vkind = "connect" THEN ConnectSources
                  ELSE IF vkind = "send" THEN SendSources ELSE ServerSources)
    /\ vsrc = Len(vheap) /\ vpc = "idle" /\ vout = NotConverted
    /\ LiveParked /\ HttpParked /\ PathParked /\ BuildParked /\ UploadParked
    /\ PageParked /\ CtxParked /\ ChatParked /\ ClientParked /\ DuplexParked

SpecConv == InitConv /\ [][Convert]_vars

InitLive == LiveInit /\ HttpParked /\ PathParked /\ BuildParked /\ UploadParked /\ PageParked /\ CtxParked /\ ChatParked /\ ClientParked /\ DuplexParked /\ ConvParked

SpecLive == InitLive /\ [][LiveNext]_vars

\* Connect runs whenever it can: it returns once a frame is there to read or
\* the read has failed.  The peer is not obliged to send anything.
SpecConnect ==
    InitLive /\ [][ConnectNext]_vars
    /\ WF_vars(\E o \in ConnectOutcomes : ConnectStart(o)) /\ WF_vars(ConnectAck)

InitHTTP == HttpInit /\ LiveParked /\ PathParked /\ BuildParked /\ UploadParked /\ PageParked /\ CtxParked /\ ChatParked /\ ClientParked /\ DuplexParked /\ ConvParked

SpecHTTP == InitHTTP /\ [][HttpNext]_vars

InitPath == PathInit /\ LiveParked /\ HttpParked /\ BuildParked /\ UploadParked /\ PageParked /\ CtxParked /\ ChatParked /\ ClientParked /\ DuplexParked /\ ConvParked

SpecPath == InitPath /\ [][PathNext]_vars

InitBuild == BuildInit /\ LiveParked /\ HttpParked /\ PathParked /\ UploadParked /\ PageParked /\ CtxParked /\ ChatParked /\ ClientParked /\ DuplexParked /\ ConvParked

SpecBuild == InitBuild /\ [][BuildNext]_vars

InitUpload ==
    /\ usize \in 0..MaxUploadSize /\ userver \in {"mock", "echoing"} /\ UploadIdle
    /\ LiveParked /\ HttpParked /\ PathParked /\ BuildParked /\ PageParked /\ CtxParked /\ ChatParked /\ ClientParked /\ DuplexParked /\ ConvParked

SpecUpload == InitUpload /\ [][UploadNext]_vars

InitPage ==
    /\ serverResponses \in PageLists /\ PageIdle
    /\ LiveParked /\ HttpParked /\ PathParked /\ BuildParked /\ UploadParked /\ CtxParked /\ ChatParked /\ ClientParked /\ DuplexParked /\ ConvParked

SpecPage == InitPage /\ [][PageNext]_vars

----------------------------------------------------------------------------
(* Properties of the realtime session. *)

SessionOps ==
    {"SendClientContent", "SendRealtimeInput", "SendToolResponse", "Receive"}

(* A call of `op` returns in this step. *)
Returns(op) == last'.tick # last.tick /\ last'.op = op

(* C1: a session returned by Live.Connect is preceded by exactly one write *)
(* (the setup frame) followed by exactly one frame read, so at least one   *)
(* server frame had arrived, and Connect read no second frame.             *)
C1_ConnectReadsOneAck ==
    cpc = "returned" =>
        /\ clog = <<"write", "read">>
        /\ arrived >= 1
        /\ written # <<>> /\ Head(written) = SetupFrame

(* C2: on an established session, send with a message whose Setup field is *)
(* set returns an error, and the step writes no frame to the socket.       *)
C2_SetupRejectedWithoutWrite ==
    [][(Returns("send") /\ last'.setup) =>
           (last'.res = "err" /\ written' = written)]_vars

C2_Witness ==
    /\ last.op = "send" /\ last.setup /\ last.res = "err"
    /\ sess = "session" /\ canWrite /\ Len(written) < MaxWrites

(* C3: Close on a never-opened session (nil session or nil connection) or  *)
(* on an already-closed session returns no error and changes nothing.      *)
C3_CloseIdempotent ==
    [][(Returns("Close") /\ (last'.recv \in {"nil", "zero"} \/ conn = "closed"))
          => (last'.res = "ok"
              /\ UNCHANGED <<conn, sess, rbroken, wbroken, inbox, written>>)]_vars

(* C4: once Close has been called, or a socket read or write error has     *)
(* been returned to the caller, every later SendClientContent,             *)
(* SendRealtimeInput, SendToolResponse and Receive returns an error.       *)
C4_ClosedIsTerminal ==
    [][(terminal /\ \E op \in SessionOps : Returns(op)) => last'.res = "err"]_vars

----------------------------------------------------------------------------
(* Properties of the HTTP pipeline. *)

C7_ErrorAfterValidPrefix ==
    (hres = "stream" /\ ~AllValid(hsegs)) =>
        LET k == Len(ValidPrefix(hsegs)) IN
        /\ yielded = Take(ValidPrefix(hsegs), steps)
        /\ hpc # "ended"
        /\ (herr # "none") <=> (hpc = "failed")
        /\ hpc = "failed" =>
               /\ errStep = k + 1 /\ steps = k + 1
               /\ yielded = ValidPrefix(hsegs)
               /\ gotResponse = yielded

C7_Witness ==
    /\ hpc = "failed" /\ herr = "invalidChunk" /\ errStep = 3
    /\ Len(gotResponse) = 2 /\ rest = <<>>

C9_StatusClassification ==
    hpc # "idle" =>
        /\ hstatus < 400 => (herr # "api" /\ apiErr = NoAPIError)
        /\ hstatus >= 400 =>
               /\ herr # "none" /\ hres = "none"
               /\ yielded = <<>> /\ gotResponse = <<>>
               /\ apiErr.kind = IF hstatus < 500 THEN "client" ELSE "server"

(* C10: a call that has returned for a status of 400 or more whose body is *)
(* not an error envelope returned an API error with that status as code,   *)
(* the raw body as message and the HTTP status line as status string.      *)
C10_SynthesizedError ==
    (hpc = "done" /\ hstatus >= 400 /\ ~IsEnvelope(hbody)) =>
        /\ herr = "api"
        /\ apiErr.code = hstatus
        /\ apiErr.message = hbody
        /\ apiErr.status = StatusLine(hstatus)

----------------------------------------------------------------------------
(* Properties of setValueByPath and getValueByPath. *)

IsPlainPath(keys) ==
    keys # <<>> /\ \A i \in 1..Len(keys) : keys[i] \in PlainKeys

(* C17: for a path of one or more plain keys and a value that is neither   *)
(* nil nor a zero value, getValueByPath on the map that setValueByPath     *)
(* made of the empty map returns that value.                               *)
C17_SetGetRoundTrip ==
    (ppc = "setgot" /\ pdata = EmptyMap /\ IsPlainPath(pkeys)
        /\ ~IsNil(pvalue) /\ ~IsZero(pvalue)) => pgot = pvalue

C17_Witness ==
    /\ ppc = "setgot" /\ pdata = EmptyMap /\ pkeys = <<"a", "b", "a">>
    /\ pvalue = Map([x \in {"b"} |-> Str("w")]) /\ pgot = pvalue

(* C18: setValueByPath on a map, with a nil or zero value, returns without *)
(* a panic and leaves the map as it was, whatever the path.                *)
C18_ZeroValueNoMutation ==
    (ppc = "set" /\ pdata.t = "map" /\ (IsNil(pvalue) \/ IsZero(pvalue))) =>
        (~pout.panic /\ pout.data = pdata)

(* C19: setValueByPath with the path a[].b: a sequence of N elements, set  *)
(* where a is absent, makes a a list of N maps whose i-th holds b equal to *)
(* the i-th element; a scalar, set where a holds element maps, is written  *)
(* to b in each of them and their other keys stay.                         *)
C19_DistributingPath ==
    (ppc = "set" /\ pkeys = <<"a[]", "b">> /\ pdata.t = "map") =>
        /\ (pvalue.t = "list" /\ "a" \notin DOMAIN pdata.m) =>
              /\ ~pout.panic
              /\ "a" \in DOMAIN pout.data.m
              /\ pout.data.m["a"] =
                    List([i \in 1..Len(pvalue.l) |->
                             Map([x \in {"b"} |-> pvalue.l[i]])])
        /\ (pdata = ArrayExisting /\ pvalue = Str("w")) =>
              /\ ~pout.panic
              /\ pout.data.m["a"] =
                    List([i \in 1..Len(pdata.m["a"].l) |->
                             Map(Put(pdata.m["a"].l[i].m, "b", pvalue))])

(* C20: getValueByPath returns nil (the nil map counts as nil) when the    *)
(* path is empty; it returns nil when the data                             *)
(* is the nil map, when the first key is missing and when the first key    *)
(* holds something that is not a map while the path goes on; for the path  *)
(* of the one segment _self it returns the map it was given.               *)
C20_GetNotFound ==
    ppc = "got" =>
        /\ pkeys = <<>> => pgot \in {Nil, NilMap}
        /\ pkeys = <<"_self">> => pgot = pdata
        /\ (pkeys # <<"_self">> /\ pkeys # <<>> /\ pdata = NilMap) => pgot = Nil
        /\ (pkeys # <<"_self">> /\ pkeys # <<>> /\ pdata.t = "map") =>
              /\ pkeys[1] \notin DOMAIN pdata.m => pgot = Nil
              /\ (Len(pkeys) > 1 /\ pkeys[1] \in DOMAIN pdata.m
                    /\ pdata.m[pkeys[1]].t # "map") => pgot = Nil

----------------------------------------------------------------------------
(* Properties of buildRequest. *)

Built == bpc = "done" /\ breq.err = "none"

DefaultHeaders == {"Content-Type", "User-Agent", "X-Goog-Api-Client"}

HasPrefix(s, p) == Len(s) >= Len(p) /\ SubSeq(s, 1, Len(p)) = p

URLOf(cfg, path) == <<cfg.baseURL, APIVersion(cfg)>> \o path

C13_BodyPayload ==
    Built =>
        /\ IsEmptyBody(bbody) => breq.body = <<>>
        /\ ~IsEmptyBody(bbody) => (breq.body # <<>> /\ breq.body = Encode(bbody))
        /\ bbody = <<"", "value">> => breq.body = <<"{", "key", ":", "value", "}", "LF">>
        /\ bbody = <<"value", "value">> =>
              breq.body = <<"{", "a", ":", "value", ",", "key", ":", "value", "}", "LF">>

C13_Witness ==
    /\ Built /\ IsEmptyBody(bbody) /\ bmethod = "POST" /\ bcfg.backend = "vertex"
    /\ breq.body = <<>>

----------------------------------------------------------------------------
(* Properties of the resumable upload. *)

RECURSIVE BytesSent(_, _)
\* The number of bytes the bodies of the first k requests hold together.
BytesSent(reqs, k) ==
    IF k = 0 THEN 0 ELSE BytesSent(reqs, k - 1) + reqs[k].body

(* C14: the chunks of an upload are sent one after another: at most one    *)
(* request is without a handled response, and it is the last one sent.     *)
(* The offset of every request is the number of bytes of all requests      *)
(* before it, its content length is the number of bytes of its body and is *)
(* at most the chunk size.  A response that reports an offset other than   *)
(* the bytes sent so far ends the upload with an error: no request follows *)
(* it.                                                                     *)
C14_SequentialChunks ==
    /\ Len(usent) - Len(uhandled) = (IF upc \in {"sent", "answered"} THEN 1 ELSE 0)
    /\ \A i \in 1..Len(usent) :
          /\ usent[i].offset = BytesSent(usent, i - 1)
          /\ usent[i].contentLength = usent[i].body
          /\ usent[i].contentLength <= maxChunkSize
    /\ \A i \in 1..Len(uhandled) :
          (uhandled[i].echoed # -1 /\ uhandled[i].echoed # BytesSent(usent, i)) =>
              /\ upc = "failed" /\ ufile.err # "none"
              /\ Len(uhandled) = i /\ Len(usent) = i

C14_Witness ==
    /\ userver = "echoing" /\ Len(usent) = 2 /\ usent[2].offset = maxChunkSize
    /\ Len(uhandled) = 2 /\ uhandled[2].echoed # BytesSent(usent, 2)
    /\ upc = "failed" /\ ufile.err = "offset mismatch"

(* C15: no request follows a request marked finalize; against              *)
(* mockUploadServer the upload of a source of any size does not fail; and  *)
(* when uploadFile has returned a file, exactly one request was marked     *)
(* finalize, it is the last one, the bodies of all requests hold as many   *)
(* bytes as the source, and the size of the file is the size the response  *)
(* to the finalize request declares, the size of the source.               *)
C15_FinalizeOnceLast ==
    /\ \A i \in 1..Len(usent) : IsFinalize(usent[i].command) => i = Len(usent)
    /\ userver = "mock" => upc # "failed"
    /\ upc = "done" =>
          /\ Len(usent) >= 1 /\ IsFinalize(usent[Len(usent)].command)
          /\ Cardinality({i \in 1..Len(usent) : IsFinalize(usent[i].command)}) = 1
          /\ BytesSent(usent, Len(usent)) = usize
          /\ ufile.err = "none"
          /\ ufile.sizeBytes = uhandled[Len(uhandled)].sizeBytes
          /\ ufile.sizeBytes = usize

C15_Witness ==
    /\ userver = "mock" /\ usize > maxChunkSize /\ upc = "done"
    /\ Len(usent) >= 2 /\ ufile.sizeBytes = usize

----------------------------------------------------------------------------
(* Properties of the pagination iterator. *)

RECURSIVE PageItems(_, _)
\* The items of the first k pages, in order.
PageItems(pages, k) ==
    IF k = 0 THEN <<>> ELSE PageItems(pages, k - 1) \o pages[k].files

\* The first page that carries no token.
LastPage(pages) ==
    CHOOSE k \in 1..Len(pages) :
        /\ pages[k].nextPageToken = ""
        /\ \A j \in 1..(k - 1) : pages[j].nextPageToken # ""

(* C16: Files.All yields no error.  What it has yielded is, at any time, a *)
(* beginning of the items of the pages in page order and in-page order,    *)
(* every item once.  When it has ended it has yielded all items of the     *)
(* pages up to the first page without a token, and has requested no page   *)
(* after that one.  The first request carries no page token, every later   *)
(* request the token of the response before it.                            *)
C16_AllPagesInOrder ==
    /\ gerr = "none" /\ gpc # "failed"
    /\ Len(gotFiles) <= Len(PageItems(serverResponses, LastPage(serverResponses)))
    /\ gotFiles = SubSeq(PageItems(serverResponses, LastPage(serverResponses)),
                         1, Len(gotFiles))
    /\ \A i, j \in 1..Len(gotFiles) : i # j => gotFiles[i] # gotFiles[j]
    /\ gpc = "done" =>
          /\ gotFiles = PageItems(serverResponses, LastPage(serverResponses))
          /\ responseIndex = LastPage(serverResponses)
          /\ Len(greqs) = LastPage(serverResponses)
    /\ \A i \in 1..Len(greqs) :
          greqs[i] = (IF i = 1 THEN "" ELSE serverResponses[i - 1].nextPageToken)

C16_Witness ==
    /\ gpc = "done" /\ Len(serverResponses) = 3
    /\ serverResponses[1].nextPageToken = "next_page_token"
    /\ serverResponses[2].nextPageToken = ""
    /\ greqs = <<"", "next_page_token">> /\ gotFiles = <<1, 2, 3>>

----------------------------------------------------------------------------
(* Further properties of the realtime session. *)

(* C25: SendToolResponse with a function response that carries an id: on   *)
(* the Vertex backend the call returns an error and writes no frame; on    *)
(* the other backend, with a writable socket, it returns no error and      *)
(* writes one tool-response frame that carries the id.                     *)
C25_ToolResponseId ==
    [][SendToolResponse(TRUE) =>
          IF backend = "vertex"
          THEN last'.res = "err" /\ written' = written
          ELSE canWrite =>
                  /\ last'.res = "ok"
                  /\ written' = Append(written, ClientFrame("toolResponse", "na", TRUE))]_vars

C25_Witness ==
    /\ backend = "vertex" /\ sess = "session" /\ canWrite
    /\ last.op = "SendToolResponse" /\ last.res = "err"
    /\ written = <<SetupFrame>>

(* C26: the frame a successful SendClientContent writes carries            *)
(* turnComplete: true when TurnComplete is unset or true, false when it is *)
(* an explicit false.                                                      *)
C26_TurnCompleteCarried ==
    [][\A tc \in {"unset", "true", "false"} :
          (SendClientContent(tc) /\ last'.res = "ok") =>
              /\ Len(written') = Len(written) + 1
              /\ written'[Len(written')].kind = "clientContent"
              /\ written'[Len(written')].turnComplete =
                    (IF tc = "false" THEN "false" ELSE "true")]_vars

(* C30: when Live.Connect has returned an error the caller holds no        *)
(* session and the socket Connect opened is not open any more.             *)
C30_FailedConnectClosesSocket ==
    cpc = "failed" => (sess = "none" /\ conn # "open")

(* C23: when the context handed to Live.Connect is cancelled while Connect *)
(* is blocked waiting for the acknowledgement frame, Connect eventually    *)
(* returns.                                                                *)
C23_CancelUnblocksConnect ==
    (cancelled /\ cpc = "awaitAck") ~> (cpc # "awaitAck")

----------------------------------------------------------------------------
(* Properties of Chat. *)

(* C27: the contents a SendMessage hands to GenerateContent are the        *)
(* entries of the history as it stands before the call, in order, followed *)
(* by one user content that holds the parts of the call in the order       *)
(* passed.                                                                 *)
C27_RequestCarriesHistory ==
    [][csends' = csends + 1 =>
          /\ Len(contents') = Len(comprehensiveHistory) + 1
          /\ SubSeq(contents', 1, Len(comprehensiveHistory)) = comprehensiveHistory
          /\ contents'[Len(contents')] = [role |-> "user", parts |-> cparts']]_vars

C27_Witness ==
    /\ csends = 2 /\ Len(cparts) = 2 /\ cparts[1] # cparts[2]
    /\ Len(contents) = 5 /\ contents[2] = [role |-> "model", parts |-> <<"3">>]
    /\ contents[4].role = "model" /\ contents[5].parts = cparts

(* C28: a SendMessage whose GenerateContent fails leaves the history as it *)
(* was before the call.                                                    *)
C28_FailedSendKeepsHistory ==
    [][(csends' = csends + 1 /\ modelOutput'.err) =>
          comprehensiveHistory' = comprehensiveHistory]_vars

C28_Witness ==
    /\ csends = 2 /\ modelOutput.err /\ Len(cparts) > 0
    /\ Len(comprehensiveHistory) = 2 /\ comprehensiveHistory[1] = contents[1]
    /\ comprehensiveHistory[1].parts = <<"Add 1">>

(* C29: a SendMessage never changes, reorders or removes an entry of the   *)
(* history.  A successful one appends the user content and then, exactly   *)
(* when the response has a candidate and the first candidate's content is  *)
(* not nil, one model content with the parts of that content whose text is *)
(* not empty, in order.                                                    *)
C29_HistoryAppendOnly ==
    [][csends' = csends + 1 =>
          LET old == comprehensiveHistory
              new == comprehensiveHistory'
              cands == modelOutput'.candidates
              hasModel == Len(cands) > 0 /\ ~cands[1].nil
          IN  /\ Len(new) >= Len(old) /\ SubSeq(new, 1, Len(old)) = old
              /\ ~modelOutput'.err =>
                    /\ Len(new) = Len(old) + (IF hasModel THEN 2 ELSE 1)
                    /\ new[Len(old) + 1] = [role |-> "user", parts |-> cparts']
                    /\ hasModel =>
                          /\ new[Len(old) + 2].role = "model"
                          /\ \A i \in 1..Len(new[Len(old) + 2].parts) :
                                new[Len(old) + 2].parts[i] # ""
                          /\ new[Len(old) + 2].parts =
                                SelectSeq(cands[1].content.parts, LAMBDA t : t # "")]_vars

C29_Witness ==
    /\ csends = 1 /\ ~modelOutput.err /\ Len(modelOutput.candidates) = 1
    /\ modelOutput.candidates[1].content.parts = <<"", "1 + 2 = 3">>
    /\ Len(comprehensiveHistory) = 4
    /\ comprehensiveHistory[4] = [role |-> "model", parts |-> <<"1 + 2 = 3">>]

\* C22: every configuration NewClient accepts has, once resolved, not both a
\* project or location and an API key, whether the values are explicit or
\* come from the environment.
C22_ProjectKeyExclusive ==
    nclient.state = "client" =>
        ~ /\ nclient.clientConfig.project # "" \/ nclient.clientConfig.location # ""
          /\ nclient.clientConfig.apiKey # ""

\* The frames of the send calls that returned without error, in order.
RECURSIVE FramesSent(_)
FramesSent(log) ==
    IF log = <<>> THEN <<>>
    ELSE IF Head(log).err THEN FramesSent(Tail(log))
    ELSE <<liveSendParametersTo(dbackend, Head(log).msg).frame>> \o FramesSent(Tail(log))

\* C24: with one sender and one receiver on an open session, under every
\* interleaving, the socket holds exactly one whole frame per successful
\* send, in order; the frames of the server are handed, each to exactly one
\* Receive call, in arrival order, none lost or duplicated; and what a
\* Receive call returns is the decoding of its own frame.
C24_DirectionsDoNotInterfere ==
    /\ dwritten = FramesSent(sendLog)
    /\ darrived = [i \in 1..Len(recvLog) |-> recvLog[i].frame]
                     \o (IF rpc = "read" THEN <<msgBytes>> ELSE <<>>) \o dinbox
    /\ \A i \in 1..Len(recvLog) :
          /\ recvLog[i].res = decodeFrame(dbackend, darrived[i]).res
          /\ recvLog[i].msg = decodeFrame(dbackend, darrived[i]).msg

\* Both calls are under way at once, after a frame was written and a
\* message was returned.
C24_Witness ==
    /\ spc = "marshalled" /\ rpc = "read"
    /\ Len(dwritten) >= 1
    /\ \E i \in 1..Len(recvLog) : recvLog[i].res = "ok"

============================================================================
